---- MODULE Spec2Model ----
(***************************************************************************)
(* Model of pf-tui-go: the rule store (FirewallManager) with its JSON      *)
(* persistence, over a small file system; two processes adding a rule to   *)
(* the same file; the compiler of the rules to pf.conf text                *)
(* (GeneratePfConf); and the parser of the live rules (ParseLiveRules).    *)
(* Each has its own specification: Spec, SpecRace, SpecCompile, SpecParse. *)
(*                                                                         *)
(* Files are modelled by their content as a JSON text: either no file,     *)
(* a text that is not JSON, or a JSON object whose two keys                *)
(* "filter_rules" and "rdr_rules" are each absent, of the wrong JSON type, *)
(* or an array of rule objects; a rule object carries any subset of the    *)
(* rule's keys.  The file system itself is reliable: a read fails only     *)
(* when the file does not exist, renames and writes succeed.               *)
(***************************************************************************)
EXTENDS Integers, Sequences, FiniteSets, Bags, TLC

VARIABLES
    Config,     \* fm.Config: the in-memory document (both slices, by length)
    spare,      \* the slots of each slice's backing array between len and cap
                \* that still hold an element of an earlier document
    files,      \* path -> content of the file at that path
    last,       \* the store operation that ran last, its arguments and error
    pre,        \* Config and files as they were when that operation started,
                \* and the operation that ran before it, with its error
    calls,      \* how many store operations have run
    procs,      \* two processes on the same files: each one's own fm.Config
                \* and spare slots, the rule it adds, where it is in
                \* AddFirewallRule, and the error returned
    returned,   \* the processes whose AddFirewallRule returned, in that order
    overlapped, \* whether one call began while the other was under way
    document,   \* the Config handed to the compiler, its fields as texts
    pfConf,     \* what GeneratePfConf returned for it: <<>> before the call,
                \* <<text>> after it
    output,     \* the text of `pfctl -s rules` handed to the parser
    parsed,     \* what ParseLiveRules did with it: <<>> before the call
    m,          \* the user interface's model struct: <<>> before NewModel
    pf,         \* the packet filter as the shell layer finds it: whether it
                \* is enabled, and whether it is enabled on startup
    cmds,       \* the commands Update returned that are still running
    msgs,       \* the messages of finished commands that Update has not handled
    keys,       \* how many key presses have changed the model or the document
                \* or started a command
    ran,        \* the store command that returned in the step that led here,
                \* with its error and the files as they were before it
    testMode,   \* whether the program was started with -test
    host,       \* what the shell layer works on: the text of /etc/pf.conf and
                \* of the anchor file, the rules pfctl has loaded, whether PF
                \* is enabled and whether the launchd plist is there
    executed,   \* the commands the last operation of the shell layer
                \* executed, each with its arguments
    reply,      \* that operation, with what it returned
    applying    \* the closure of saveAndApplyRules: the call it is about to
                \* make, the calls it has made, what SaveConfig wrote, the
                \* message it returned, and whether the key handler moved a
                \* rule after the document was written

storeVars == <<Config, spare, files, last, pre, calls>>
raceVars == <<procs, returned, overlapped>>
compileVars == <<document, pfConf>>
parseVars == <<output, parsed>>
uiVars == <<m, pf, cmds, msgs, keys, ran>>
shellVars == <<testMode, host, executed, reply, applying>>
vars == <<storeVars, raceVars, compileVars, parseVars, uiVars, shellVars>>

----------------------------------------------------------------------------
(* Bounds of the model *)

\* The longest rule list, and the number of store operations in one run.
MaxRules == 3

MaxCalls == 3

----------------------------------------------------------------------------
(* The data model *)

FirewallRule(action, direction, quick, interface, protocol, source, destination, port, keepState, description) ==
    [Action |-> action, Direction |-> direction, Quick |-> quick,
     Interface |-> interface, Protocol |-> protocol, Source |-> source,
     Destination |-> destination, Port |-> port, KeepState |-> keepState,
     Description |-> description]

PortForwardingRule(interface, protocol, externalIP, externalPort, internalIP, internalPort, description) ==
    [Interface |-> interface, Protocol |-> protocol, ExternalIP |-> externalIP,
     ExternalPort |-> externalPort, InternalIP |-> internalIP,
     InternalPort |-> internalPort, Description |-> description]

\* A string field of a rule is a text: the sequence of its pieces, where each
\* character the program looks for (a blank, a line break, ",", "-", ":") is a
\* piece of its own and every other run of characters is one piece.
AnyText == <<"any">>

\* The zero values of the two Go structs.
ZeroFirewallRule == FirewallRule(<<>>, <<>>, FALSE, <<>>, <<>>, <<>>, <<>>, <<>>, FALSE, <<>>)

ZeroPortForwardingRule == PortForwardingRule(<<>>, <<>>, <<>>, <<>>, <<>>, <<>>, <<>>)

\* NewFirewallManager: both slices empty.
NewConfig == [FirewallRules |-> <<>>, PortForwardingRules |-> <<>>]

NoSpare == [FirewallRules |-> <<>>, PortForwardingRules |-> <<>>]

\* The rules the caller passes to Add and Update.
RuleA == FirewallRule(<<"pass">>, <<"in">>, FALSE, AnyText, <<"tcp">>, AnyText, AnyText, <<"22">>, TRUE, <<"ssh">>)

RuleB == FirewallRule(<<"block">>, <<"out">>, TRUE, <<"en0">>, AnyText, <<"10.0.0.0/8">>, AnyText, AnyText, FALSE, <<>>)

\* A rule that only files hold.
RuleC == FirewallRule(<<"pass">>, <<"out">>, FALSE, AnyText, <<"tcp", ",", "udp">>, AnyText, <<"192.168.1.1">>, <<"53", ",", "80", "-", "90">>, FALSE, <<"dns", " ", "and", " ", "web">>)

FirewallRuleInputs == {RuleA, RuleB}

FwdA == PortForwardingRule(<<"en0">>, <<"tcp">>, AnyText, <<"8080">>, <<"192.168.1.5">>, <<"80">>, <<"web", " ", "fwd">>)

FwdB == PortForwardingRule(AnyText, <<"udp">>, <<"1.2.3.4">>, <<"53">>, <<"127.0.0.1">>, <<"5353">>, <<>>)

PortForwardingRuleInputs == {FwdA, FwdB}

\* The indices a caller passes: every valid one, and one out of range on each side.
Indices == -1 .. MaxRules

----------------------------------------------------------------------------
(* JSON texts *)

\* One key of the top-level JSON object: absent, present with a value that is
\* not an array, or present with an array of rule objects.
AbsentKey == [state |-> "absent", val |-> <<>>]

MistypedKey == [state |-> "mistyped", val |-> <<>>]

ArrayKey(objs) == [state |-> "array", val |-> objs]

NoFile == [kind |-> "none", filter_rules |-> AbsentKey, rdr_rules |-> AbsentKey]

\* Bytes that are not JSON at all.
BadText == [kind |-> "bad", filter_rules |-> AbsentKey, rdr_rules |-> AbsentKey]

JsonText(filterKey, rdrKey) ==
    [kind |-> "json", filter_rules |-> filterKey, rdr_rules |-> rdrKey]

\* Mutant: the tags of Source and Destination exchanged.
MarshalFirewallRuleTagsExchanged(r) ==
    [action |-> r.Action, direction |-> r.Direction, quick |-> r.Quick,
     interface |-> r.Interface, protocol |-> r.Protocol, source |-> r.Destination,
     destination |-> r.Source, port |-> r.Port,
     keep_state |-> r.KeepState, description |-> r.Description]

\* encoding/json on a FirewallRule: every field, under its `json:"..."` tag.
MarshalFirewallRule(r) ==
    [action |-> r.Action, direction |-> r.Direction, quick |-> r.Quick,
     interface |-> r.Interface, protocol |-> r.Protocol, source |-> r.Source,
     destination |-> r.Destination, port |-> r.Port,
     keep_state |-> r.KeepState, description |-> r.Description]

MarshalPortForwardingRule(r) ==
    [interface |-> r.Interface, protocol |-> r.Protocol,
     external_ip |-> r.ExternalIP, external_port |-> r.ExternalPort,
     internal_ip |-> r.InternalIP, internal_port |-> r.InternalPort,
     description |-> r.Description]

\* json.MarshalIndent(fm.Config): both keys, each an array in slice order.
MarshalConfig(c) ==
    JsonText(
        ArrayKey([i \in 1 .. Len(c.FirewallRules) |-> MarshalFirewallRule(c.FirewallRules[i])]),
        ArrayKey([i \in 1 .. Len(c.PortForwardingRules) |->
                    MarshalPortForwardingRule(c.PortForwardingRules[i])]))

\* Decoding a JSON object into an existing struct value sets the fields whose
\* key the object carries and leaves the others as they are.
UnmarshalFirewallRule(obj, old) ==
    [Action      |-> IF "action" \in DOMAIN obj THEN obj.action ELSE old.Action,
     Direction   |-> IF "direction" \in DOMAIN obj THEN obj.direction ELSE old.Direction,
     Quick       |-> IF "quick" \in DOMAIN obj THEN obj.quick ELSE old.Quick,
     Interface   |-> IF "interface" \in DOMAIN obj THEN obj.interface ELSE old.Interface,
     Protocol    |-> IF "protocol" \in DOMAIN obj THEN obj.protocol ELSE old.Protocol,
     Source      |-> IF "source" \in DOMAIN obj THEN obj.source ELSE old.Source,
     Destination |-> IF "destination" \in DOMAIN obj THEN obj.destination ELSE old.Destination,
     Port        |-> IF "port" \in DOMAIN obj THEN obj.port ELSE old.Port,
     KeepState   |-> IF "keep_state" \in DOMAIN obj THEN obj.keep_state ELSE old.KeepState,
     Description |-> IF "description" \in DOMAIN obj THEN obj.description ELSE old.Description]

UnmarshalPortForwardingRule(obj, old) ==
    [Interface    |-> IF "interface" \in DOMAIN obj THEN obj.interface ELSE old.Interface,
     Protocol     |-> IF "protocol" \in DOMAIN obj THEN obj.protocol ELSE old.Protocol,
     ExternalIP   |-> IF "external_ip" \in DOMAIN obj THEN obj.external_ip ELSE old.ExternalIP,
     ExternalPort |-> IF "external_port" \in DOMAIN obj THEN obj.external_port ELSE old.ExternalPort,
     InternalIP   |-> IF "internal_ip" \in DOMAIN obj THEN obj.internal_ip ELSE old.InternalIP,
     InternalPort |-> IF "internal_port" \in DOMAIN obj THEN obj.internal_port ELSE old.InternalPort,
     Description  |-> IF "description" \in DOMAIN obj THEN obj.description ELSE old.Description]

\* Decoding a JSON array into an existing slice: element i is decoded into
\* slot i of the slice's backing array (a slot past the array is a new zero
\* value), the length becomes the array's, and an empty array yields a fresh
\* empty slice.  live is the slice, tail the slots behind it.  An absent key
\* and a value of the wrong type leave the slice as it is.
UnmarshalFirewallRules(key, live, tail) ==
    LET backing == live \o tail
        k == Len(key.val)
    IN  IF key.state # "array"
        THEN [live |-> live, tail |-> tail]
        ELSE [live |-> [i \in 1 .. k |->
                         UnmarshalFirewallRule(key.val[i],
                             IF i <= Len(backing) THEN backing[i] ELSE ZeroFirewallRule)],
              tail |-> IF k = 0 THEN <<>> ELSE SubSeq(backing, k + 1, Len(backing))]

UnmarshalPortForwardingRules(key, live, tail) ==
    LET backing == live \o tail
        k == Len(key.val)
    IN  IF key.state # "array"
        THEN [live |-> live, tail |-> tail]
        ELSE [live |-> [i \in 1 .. k |->
                         UnmarshalPortForwardingRule(key.val[i],
                             IF i <= Len(backing) THEN backing[i] ELSE ZeroPortForwardingRule)],
              tail |-> IF k = 0 THEN <<>> ELSE SubSeq(backing, k + 1, Len(backing))]

ErrSyntax == "json: invalid character"

ErrType == "json: cannot unmarshal"

\* json.Unmarshal(data, fm.Config): a text that is not JSON changes nothing;
\* a JSON object is decoded key by key into the existing Config, and a value
\* of the wrong type is skipped and reported after the rest was decoded.
Unmarshal(text, c, sp) ==
    IF text.kind = "bad"
    THEN [Config |-> c, spare |-> sp, err |-> ErrSyntax]
    ELSE LET f == UnmarshalFirewallRules(text.filter_rules, c.FirewallRules, sp.FirewallRules)
             p == UnmarshalPortForwardingRules(text.rdr_rules, c.PortForwardingRules,
                                               sp.PortForwardingRules)
         IN  [Config |-> [FirewallRules |-> f.live, PortForwardingRules |-> p.live],
              spare  |-> [FirewallRules |-> f.tail, PortForwardingRules |-> p.tail],
              err    |-> IF text.filter_rules.state = "mistyped"
                            \/ text.rdr_rules.state = "mistyped"
                         THEN ErrType ELSE ""]

----------------------------------------------------------------------------
(* The file system *)

\* A path is a text of the pieces the program joins it from; the empty one is
\* the path argument of a call that takes none.
NoPath == <<>>

DefaultConfigPath == <<"rules.json">>

BackupPath == <<"rules.json.bak">>

\* Files the user can import from, and a path that names no file.
GarbagePath == <<"garbage.json">>

FullPath == <<"full.json">>

OmitPath == <<"omit.json">>

PartialPath == <<"partial.json">>

MistypedPath == <<"mistyped.json">>

MissingPath == <<"missing.json">>

Paths == {DefaultConfigPath, BackupPath, GarbagePath, FullPath, OmitPath,
          PartialPath, MistypedPath, MissingPath}

\* {"filter_rules": [RuleB, RuleA, RuleC], "rdr_rules": [FwdB, FwdA]}
FullText ==
    JsonText(ArrayKey(<<MarshalFirewallRule(RuleB), MarshalFirewallRule(RuleA),
                        MarshalFirewallRule(RuleC)>>),
             ArrayKey(<<MarshalPortForwardingRule(FwdB), MarshalPortForwardingRule(FwdA)>>))

\* {"filter_rules": [RuleA]}
OmitText == JsonText(ArrayKey(<<MarshalFirewallRule(RuleA)>>), AbsentKey)

\* {"filter_rules": [RuleA, {"action": "block"}], "rdr_rules": [{"external_port": "443"}]}
PartialText ==
    JsonText(ArrayKey(<<MarshalFirewallRule(RuleA), [action |-> <<"block">>]>>),
             ArrayKey(<<[external_port |-> <<"443">>]>>))

\* {"filter_rules": 5, "rdr_rules": [FwdA]}
MistypedText == JsonText(MistypedKey, ArrayKey(<<MarshalPortForwardingRule(FwdA)>>))

InitialFiles ==
    [p \in Paths |->
        CASE p = GarbagePath  -> BadText
          [] p = FullPath     -> FullText
          [] p = OmitPath     -> OmitText
          [] p = PartialPath  -> PartialText
          [] p = MistypedPath -> MistypedText
          [] OTHER            -> NoFile]

\* os.Stat, os.ReadFile: a path no file was ever written at names no file.
Exists(fs, p) == p \in DOMAIN fs /\ fs[p].kind # "none"

\* Mutant: a target that exists is kept, and the source file is dropped.
RenameKeepingTarget(fs, from, to) ==
    IF fs[to].kind # "none"
    THEN [fs EXCEPT ![from] = NoFile]
    ELSE [fs EXCEPT ![to] = fs[from], ![from] = NoFile]

\* os.Rename: the target is replaced, the source path names no file afterwards.
Rename(fs, from, to) == [fs EXCEPT ![to] = fs[from], ![from] = NoFile]

\* os.WriteFile creates the file when the path names none.
WriteFile(fs, p, data) ==
    [q \in DOMAIN fs \cup {p} |-> IF q = p THEN data ELSE fs[q]]

----------------------------------------------------------------------------
(* Slices: index arguments are Go's, counted from 0 *)

\* Mutant: the new element takes the place of the last one.
AppendRuleOverLast(live, tail, rule) ==
    [live |-> IF live = <<>> THEN <<rule>> ELSE [live EXCEPT ![Len(live)] = rule],
     tail |-> tail]

\* append(s, rule): the slot behind the slice, if the array has one, is
\* overwritten.
AppendRule(live, tail, rule) ==
    [live |-> Append(live, rule),
     tail |-> IF tail = <<>> THEN <<>> ELSE Tail(tail)]

\* append(s[:index], s[index+1:]...): the elements behind index move down one
\* slot in place; the last slot keeps the element it held.
RemoveRule(live, tail, index) ==
    [live |-> SubSeq(live, 1, index) \o SubSeq(live, index + 2, Len(live)),
     tail |-> <<live[Len(live)]>> \o tail]

\* s[index] = rule
ReplaceRule(live, tail, index, rule) ==
    [live |-> [live EXCEPT ![index + 1] = rule], tail |-> tail]

\* Mutant: the two elements exchanged, instead of one taken out and put back.
MoveRuleExchanging(live, tail, from, to) ==
    IF from < 0 \/ from >= Len(live) \/ to < 0 \/ to >= Len(live) \/ from = to
    THEN [live |-> live, tail |-> tail]
    ELSE [live |-> [live EXCEPT ![from + 1] = live[to + 1], ![to + 1] = live[from + 1]],
          tail |-> <<>>]

\* The body of MoveFirewallRule and MovePortForwardingRule: the element is
\* taken out and put back at position to of a newly made slice.
MoveRule(live, tail, from, to) ==
    IF from < 0 \/ from >= Len(live) \/ to < 0 \/ to >= Len(live)
    THEN [live |-> live, tail |-> tail]
    ELSE IF from = to
    THEN [live |-> live, tail |-> tail]
    ELSE LET rule == live[from + 1]
             tmp  == SubSeq(live, 1, from) \o SubSeq(live, from + 2, Len(live))
         IN  [live |-> SubSeq(tmp, 1, to) \o <<rule>> \o SubSeq(tmp, to + 1, Len(tmp)),
              tail |-> <<>>]

----------------------------------------------------------------------------
(* The operations of FirewallManager, as functions of the state they run in.
   Each yields the Config, the spare slots and the files it leaves, and the
   error it returns ("" for nil). *)

ErrInvalidIndex == "invalid rule index"

ErrReadImport == "failed to read import file"

Result(c, sp, fs, err) == [Config |-> c, spare |-> sp, files |-> fs, err |-> err]

\* Mutant: no default file leaves the in-memory document as it is.
LoadConfigKeepingMemory(c, sp, fs) ==
    IF ~Exists(fs, DefaultConfigPath)
    THEN Result(c, sp, fs, "")
    ELSE LET u == Unmarshal(fs[DefaultConfigPath], c, sp)
         IN  Result(u.Config, u.spare, fs, u.err)

LoadConfig(c, sp, fs) ==
    IF ~Exists(fs, DefaultConfigPath)
    THEN Result(NewConfig, NoSpare, fs, "")
    ELSE LET u == Unmarshal(fs[DefaultConfigPath], c, sp)
         IN  Result(u.Config, u.spare, fs, u.err)

SaveConfig(c, sp, fs) ==
    Result(c, sp, WriteFile(fs, DefaultConfigPath, MarshalConfig(c)), "")

\* Mutant: the source is parsed before it is copied, and bytes that do not
\* parse are not written.
ImportConfigFileValidating(c, sp, fs, sourcePath) ==
    LET fs1 == IF Exists(fs, DefaultConfigPath)
               THEN Rename(fs, DefaultConfigPath, BackupPath)
               ELSE fs
    IN  IF ~Exists(fs1, sourcePath)
        THEN Result(c, sp, fs1, ErrReadImport)
        ELSE IF Unmarshal(fs1[sourcePath], c, sp).err # ""
        THEN Result(c, sp, fs1, Unmarshal(fs1[sourcePath], c, sp).err)
        ELSE LoadConfig(c, sp, WriteFile(fs1, DefaultConfigPath, fs1[sourcePath]))

ImportConfigFile(c, sp, fs, sourcePath) ==
    LET fs1 == IF Exists(fs, DefaultConfigPath)
               THEN Rename(fs, DefaultConfigPath, BackupPath)
               ELSE fs
    IN  IF ~Exists(fs1, sourcePath)
        THEN Result(c, sp, fs1, ErrReadImport)
        ELSE LoadConfig(c, sp, WriteFile(fs1, DefaultConfigPath, fs1[sourcePath]))

AddFirewallRule(c, sp, fs, rule) ==
    LET l == LoadConfig(c, sp, fs)
    IN  IF l.err # "" THEN l
        ELSE LET a == AppendRule(l.Config.FirewallRules, l.spare.FirewallRules, rule)
             IN  SaveConfig([l.Config EXCEPT !.FirewallRules = a.live],
                            [l.spare EXCEPT !.FirewallRules = a.tail], fs)

UpdateFirewallRule(c, sp, fs, index, rule) ==
    LET l == LoadConfig(c, sp, fs)
    IN  IF l.err # "" THEN l
        ELSE IF index < 0 \/ index >= Len(l.Config.FirewallRules)
        THEN [l EXCEPT !.err = ErrInvalidIndex]
        ELSE LET a == ReplaceRule(l.Config.FirewallRules, l.spare.FirewallRules, index, rule)
             IN  SaveConfig([l.Config EXCEPT !.FirewallRules = a.live],
                            [l.spare EXCEPT !.FirewallRules = a.tail], fs)

DeleteFirewallRule(c, sp, fs, index) ==
    LET l == LoadConfig(c, sp, fs)
    IN  IF l.err # "" THEN l
        ELSE IF index < 0 \/ index >= Len(l.Config.FirewallRules)
        THEN [l EXCEPT !.err = ErrInvalidIndex]
        ELSE LET a == RemoveRule(l.Config.FirewallRules, l.spare.FirewallRules, index)
             IN  SaveConfig([l.Config EXCEPT !.FirewallRules = a.live],
                            [l.spare EXCEPT !.FirewallRules = a.tail], fs)

\* Mutant: the move is saved at once.
MoveFirewallRuleSaving(c, sp, fs, from, to) ==
    LET a == MoveRule(c.FirewallRules, sp.FirewallRules, from, to)
    IN  SaveConfig([c EXCEPT !.FirewallRules = a.live], [sp EXCEPT !.FirewallRules = a.tail], fs)

MoveFirewallRule(c, sp, fs, from, to) ==
    LET a == MoveRule(c.FirewallRules, sp.FirewallRules, from, to)
    IN  Result([c EXCEPT !.FirewallRules = a.live], [sp EXCEPT !.FirewallRules = a.tail], fs, "")

AddPortForwardingRule(c, sp, fs, rule) ==
    LET l == LoadConfig(c, sp, fs)
    IN  IF l.err # "" THEN l
        ELSE LET a == AppendRule(l.Config.PortForwardingRules, l.spare.PortForwardingRules, rule)
             IN  SaveConfig([l.Config EXCEPT !.PortForwardingRules = a.live],
                            [l.spare EXCEPT !.PortForwardingRules = a.tail], fs)

UpdatePortForwardingRule(c, sp, fs, index, rule) ==
    LET l == LoadConfig(c, sp, fs)
    IN  IF l.err # "" THEN l
        ELSE IF index < 0 \/ index >= Len(l.Config.PortForwardingRules)
        THEN [l EXCEPT !.err = ErrInvalidIndex]
        ELSE LET a == ReplaceRule(l.Config.PortForwardingRules, l.spare.PortForwardingRules,
                                  index, rule)
             IN  SaveConfig([l.Config EXCEPT !.PortForwardingRules = a.live],
                            [l.spare EXCEPT !.PortForwardingRules = a.tail], fs)

DeletePortForwardingRule(c, sp, fs, index) ==
    LET l == LoadConfig(c, sp, fs)
    IN  IF l.err # "" THEN l
        ELSE IF index < 0 \/ index >= Len(l.Config.PortForwardingRules)
        THEN [l EXCEPT !.err = ErrInvalidIndex]
        ELSE LET a == RemoveRule(l.Config.PortForwardingRules, l.spare.PortForwardingRules, index)
             IN  SaveConfig([l.Config EXCEPT !.PortForwardingRules = a.live],
                            [l.spare EXCEPT !.PortForwardingRules = a.tail], fs)

MovePortForwardingRule(c, sp, fs, from, to) ==
    LET a == MoveRule(c.PortForwardingRules, sp.PortForwardingRules, from, to)
    IN  Result([c EXCEPT !.PortForwardingRules = a.live],
               [sp EXCEPT !.PortForwardingRules = a.tail], fs, "")

----------------------------------------------------------------------------
(* The state machine: one action per call of a store operation *)

Call(op, index, to, rule, fwd, path) ==
    [op |-> op, err |-> "", index |-> index, to |-> to, rule |-> rule, fwd |-> fwd,
     path |-> path]

\* The call `call` ran in the current state and left r.
Ran(call, r) ==
    /\ calls < MaxCalls
    /\ calls' = calls + 1
    /\ Len(r.Config.FirewallRules) <= MaxRules
    /\ Len(r.Config.PortForwardingRules) <= MaxRules
    /\ Config' = r.Config
    /\ spare' = r.spare
    /\ files' = r.files
    /\ last' = [call EXCEPT !.err = r.err]
    /\ pre' = [Config |-> Config, files |-> files, op |-> last.op, err |-> last.err]
    /\ UNCHANGED <<raceVars, compileVars, parseVars, uiVars, shellVars>>

\* The one manager of the store specification, just constructed.
OneManager ==
    /\ Config = NewConfig
    /\ spare = NoSpare
    /\ last = Call("NewFirewallManager", 0, 0, ZeroFirewallRule, ZeroPortForwardingRule, NoPath)
    /\ pre = [Config |-> NewConfig, files |-> InitialFiles, op |-> "", err |-> ""]
    /\ calls = 0

\* No second process.
NoRace ==
    /\ procs = <<>>
    /\ returned = <<>>
    /\ overlapped = FALSE

\* Nothing handed to the compiler or to the parser.
NoText ==
    /\ document = NewConfig
    /\ pfConf = <<>>
    /\ output = <<>>
    /\ parsed = <<>>

\* No user interface has been started.
NoUI ==
    /\ m = <<>>
    /\ pf = [enabled |-> FALSE, startup |-> FALSE]
    /\ cmds = EmptyBag
    /\ msgs = <<>>
    /\ keys = 0
    /\ ran = [op |-> ""]

\* No operation of the shell layer has run.
NoShell ==
    /\ testMode = FALSE
    /\ host = [pfConf |-> <<>>, anchor |-> <<>>, loaded |-> <<>>, enabled |-> FALSE,
               plist |-> FALSE]
    /\ executed = <<>>
    /\ reply = [op |-> ""]
    /\ applying = [at |-> ""]

Init ==
    /\ OneManager
    /\ NoUI
    /\ NoShell
    /\ files = InitialFiles
    /\ NoRace
    /\ NoText

Load ==
    Ran(Call("LoadConfig", 0, 0, ZeroFirewallRule, ZeroPortForwardingRule, NoPath),
        LoadConfig(Config, spare, files))

Save ==
    Ran(Call("SaveConfig", 0, 0, ZeroFirewallRule, ZeroPortForwardingRule, NoPath),
        SaveConfig(Config, spare, files))

Import ==
    \E sourcePath \in Paths :
        Ran(Call("ImportConfigFile", 0, 0, ZeroFirewallRule, ZeroPortForwardingRule, sourcePath),
            ImportConfigFile(Config, spare, files, sourcePath))

AddFirewall ==
    \E rule \in FirewallRuleInputs :
        Ran(Call("AddFirewallRule", 0, 0, rule, ZeroPortForwardingRule, NoPath),
            AddFirewallRule(Config, spare, files, rule))

UpdateFirewall ==
    \E index \in Indices, rule \in FirewallRuleInputs :
        Ran(Call("UpdateFirewallRule", index, 0, rule, ZeroPortForwardingRule, NoPath),
            UpdateFirewallRule(Config, spare, files, index, rule))

DeleteFirewall ==
    \E index \in Indices :
        Ran(Call("DeleteFirewallRule", index, 0, ZeroFirewallRule, ZeroPortForwardingRule, NoPath),
            DeleteFirewallRule(Config, spare, files, index))

MoveFirewall ==
    \E from \in Indices, to \in Indices :
        Ran(Call("MoveFirewallRule", from, to, ZeroFirewallRule, ZeroPortForwardingRule, NoPath),
            MoveFirewallRule(Config, spare, files, from, to))

AddPortForwarding ==
    \E rule \in PortForwardingRuleInputs :
        Ran(Call("AddPortForwardingRule", 0, 0, ZeroFirewallRule, rule, NoPath),
            AddPortForwardingRule(Config, spare, files, rule))

UpdatePortForwarding ==
    \E index \in Indices, rule \in PortForwardingRuleInputs :
        Ran(Call("UpdatePortForwardingRule", index, 0, ZeroFirewallRule, rule, NoPath),
            UpdatePortForwardingRule(Config, spare, files, index, rule))

DeletePortForwarding ==
    \E index \in Indices :
        Ran(Call("DeletePortForwardingRule", index, 0, ZeroFirewallRule, ZeroPortForwardingRule, NoPath),
            DeletePortForwardingRule(Config, spare, files, index))

MovePortForwarding ==
    \E from \in Indices, to \in Indices :
        Ran(Call("MovePortForwardingRule", from, to, ZeroFirewallRule, ZeroPortForwardingRule, NoPath),
            MovePortForwardingRule(Config, spare, files, from, to))

Next ==
    \/ Load
    \/ Save
    \/ Import
    \/ AddFirewall
    \/ UpdateFirewall
    \/ DeleteFirewall
    \/ MoveFirewall
    \/ AddPortForwarding
    \/ UpdatePortForwarding
    \/ DeletePortForwarding
    \/ MovePortForwarding

Spec == Init /\ [][Next]_vars

----------------------------------------------------------------------------
(* What the properties speak of *)

Field(obj, key, zero) == IF key \in DOMAIN obj THEN obj[key] ELSE zero

\* The rule a JSON object stands for: a key it does not carry is the zero value.
HeldFirewallRule(obj) ==
    FirewallRule(Field(obj, "action", <<>>), Field(obj, "direction", <<>>),
                 Field(obj, "quick", FALSE), Field(obj, "interface", <<>>),
                 Field(obj, "protocol", <<>>), Field(obj, "source", <<>>),
                 Field(obj, "destination", <<>>), Field(obj, "port", <<>>),
                 Field(obj, "keep_state", FALSE), Field(obj, "description", <<>>))

HeldPortForwardingRule(obj) ==
    PortForwardingRule(Field(obj, "interface", <<>>), Field(obj, "protocol", <<>>),
                       Field(obj, "external_ip", <<>>), Field(obj, "external_port", <<>>),
                       Field(obj, "internal_ip", <<>>), Field(obj, "internal_port", <<>>),
                       Field(obj, "description", <<>>))

\* The two lists a file holds: those of its arrays, empty for an array it lacks.
HeldFilterList(text) ==
    [i \in 1 .. Len(text.filter_rules.val) |-> HeldFirewallRule(text.filter_rules.val[i])]

HeldForwardList(text) ==
    [i \in 1 .. Len(text.rdr_rules.val) |-> HeldPortForwardingRule(text.rdr_rules.val[i])]

\* The file parses: it is JSON and no key has a value of the wrong type.
Parseable(text) ==
    /\ text.kind = "json"
    /\ text.filter_rules.state # "mistyped"
    /\ text.rdr_rules.state # "mistyped"

Unparseable(text) == text.kind # "none" /\ ~Parseable(text)

FilterKeys == {"action", "direction", "quick", "interface", "protocol", "source",
               "destination", "port", "keep_state", "description"}

ForwardKeys == {"interface", "protocol", "external_ip", "external_port", "internal_ip",
                "internal_port", "description"}

\* The file is in the persisted format: both arrays, every key of every rule.
Complete(text) ==
    /\ text.kind = "json"
    /\ text.filter_rules.state = "array"
    /\ text.rdr_rules.state = "array"
    /\ \A i \in 1 .. Len(text.filter_rules.val) : DOMAIN text.filter_rules.val[i] = FilterKeys
    /\ \A i \in 1 .. Len(text.rdr_rules.val) : DOMAIN text.rdr_rules.val[i] = ForwardKeys

\* s without its k-th element (k counted from 1).
Without(s, k) == [i \in 1 .. Len(s) - 1 |-> IF i < k THEN s[i] ELSE s[i + 1]]

\* s with its k-th element replaced by e.
With(s, k, e) == [i \in 1 .. Len(s) |-> IF i = k THEN e ELSE s[i]]

InRange(index, s) == index >= 0 /\ index < Len(s)

ParseErrors == {ErrSyntax, ErrType}

OldDefault == pre.files[DefaultConfigPath]

NewDefault == files[DefaultConfigPath]

\* The in-memory document is the one the default file holds.
MemoryMatchesFile ==
    /\ Config.FirewallRules = HeldFilterList(NewDefault)
    /\ Config.PortForwardingRules = HeldForwardList(NewDefault)

Succeeded(op) == last.op = op /\ last.err = ""

----------------------------------------------------------------------------
(* C1..C10: the rule store *)

AddPost ==
    /\ Succeeded("AddFirewallRule") =>
          /\ HeldFilterList(NewDefault) = Append(HeldFilterList(OldDefault), last.rule)
          /\ HeldForwardList(NewDefault) = HeldForwardList(OldDefault)
          /\ MemoryMatchesFile
    /\ Succeeded("AddPortForwardingRule") =>
          /\ HeldForwardList(NewDefault) = Append(HeldForwardList(OldDefault), last.fwd)
          /\ HeldFilterList(NewDefault) = HeldFilterList(OldDefault)
          /\ MemoryMatchesFile

\* C1: a successful AddFilterRule(r) / AddPortForwardRule(r) on a parseable
\* default file leaves the file holding what it held with r appended to the
\* one list and the other list unchanged, and the in-memory document equal to
\* the file, whatever the in-memory document was before.
C1_AddAppendsToFileDocument == Parseable(OldDefault) => AddPost

\* C1 on the files the program itself writes: both arrays, every key.
C1_OnCompleteFiles == Complete(OldDefault) => AddPost

UpdatePost(op, old, new, rule) ==
    last.op = op =>
        IF InRange(last.index, old)
        THEN last.err = "" /\ new = With(old, last.index + 1, rule)
        ELSE last.err = ErrInvalidIndex /\ files = pre.files

UpdatePosts ==
    /\ UpdatePost("UpdateFirewallRule", HeldFilterList(OldDefault),
                  HeldFilterList(NewDefault), last.rule)
    /\ UpdatePost("UpdatePortForwardingRule", HeldForwardList(OldDefault),
                  HeldForwardList(NewDefault), last.fwd)

\* C2: Update(i, r) checks i against the list the file holds, not the list in
\* memory: outside [0, len) it returns the invalid-index error and writes
\* nothing; otherwise the file's list afterwards is the one it held with r in
\* place of element i.  (A file that does not parse fails the load first.)
C2_UpdateChecksIndexAgainstFile == ~Unparseable(OldDefault) => UpdatePosts

\* C2 on the files the program itself writes, and on no file.
C2_OnCompleteFiles == (Complete(OldDefault) \/ OldDefault = NoFile) => UpdatePosts

DeletePost(op, old, new, mem) ==
    Succeeded(op) =>
        /\ InRange(last.index, old)
        /\ new = Without(old, last.index + 1)
        /\ mem = new

DeletePosts ==
    /\ DeletePost("DeleteFirewallRule", HeldFilterList(OldDefault),
                  HeldFilterList(NewDefault), Config.FirewallRules)
    /\ DeletePost("DeletePortForwardingRule", HeldForwardList(OldDefault),
                  HeldForwardList(NewDefault), Config.PortForwardingRules)

\* C3: after a successful Delete(i) the list, in memory and in the file, is the
\* list the file held before the call with exactly element i removed: one
\* shorter, the rules behind i one position down, the order kept.
C3_DeleteRemovesExactlyOne == DeletePosts

\* C3 on the files the program itself writes.
C3_OnCompleteFiles == Complete(OldDefault) => DeletePosts

MovePost(op, old, new) ==
    last.op = op =>
        IF last.index = last.to \/ ~InRange(last.index, old) \/ ~InRange(last.to, old)
        THEN new = old
        ELSE /\ Len(new) = Len(old)
             /\ new[last.to + 1] = old[last.index + 1]
             /\ Without(new, last.to + 1) = Without(old, last.index + 1)

\* C4: Move(from, to) changes nothing when from = to or an index is outside
\* [0, len); otherwise the rule that was at from is at to, the other rules keep
\* their relative order, and the list has the same length and the same rules.
C4_MoveReordersOneRule ==
    /\ MovePost("MoveFirewallRule", pre.Config.FirewallRules, Config.FirewallRules)
    /\ MovePost("MovePortForwardingRule", pre.Config.PortForwardingRules,
                Config.PortForwardingRules)
    /\ last.op = "MoveFirewallRule" =>
          Config.PortForwardingRules = pre.Config.PortForwardingRules
    /\ last.op = "MovePortForwardingRule" =>
          Config.FirewallRules = pre.Config.FirewallRules

\* A move of the first of three distinct rules to the end.
C4_Witness ==
    /\ last.op = "MoveFirewallRule"
    /\ last.index = 0
    /\ last.to = 2
    /\ Config.FirewallRules = <<RuleA, RuleC, RuleB>>

\* C5: Move never touches the backing file, and the new order reaches the
\* file only through Save: after Save the file holds the in-memory lists in
\* their in-memory order.
C5_MoveIsMemoryOnly ==
    /\ last.op \in {"MoveFirewallRule", "MovePortForwardingRule"} => files = pre.files
    /\ last.op = "SaveConfig" =>
          /\ last.err = ""
          /\ Config = pre.Config
          /\ MemoryMatchesFile

\* A Save right after a Move that left memory in another order than the file.
C5_Witness ==
    /\ last.op = "SaveConfig"
    /\ pre.op = "MoveFirewallRule"
    /\ HeldFilterList(OldDefault) = <<RuleB, RuleA, RuleC>>
    /\ HeldFilterList(NewDefault) = <<RuleA, RuleB, RuleC>>

\* C6: with no default file, Load succeeds, replaces the in-memory document by
\* the empty one and creates no file; with a default file that does not parse,
\* Load returns an error.
C6_LoadToleratesMissingFile ==
    last.op = "LoadConfig" =>
        /\ OldDefault = NoFile =>
              /\ last.err = ""
              /\ Config = [FirewallRules |-> <<>>, PortForwardingRules |-> <<>>]
              /\ files = pre.files
        /\ Unparseable(OldDefault) => last.err \in ParseErrors

\* Load with no default file while memory held rules.
C6_Witness ==
    /\ last.op = "LoadConfig"
    /\ OldDefault = NoFile
    /\ pre.Config.FirewallRules # <<>>
    /\ pre.Config.PortForwardingRules # <<>>

\* C7: Save followed by Load yields the in-memory document that was saved,
\* field for field and in the same order.
C7_SaveThenLoadRoundTrip ==
    /\ last.op = "SaveConfig" => Config = pre.Config
    /\ (last.op = "LoadConfig" /\ pre.op = "SaveConfig" /\ pre.err = "") =>
          last.err = "" /\ Config = pre.Config

\* A Load after a Save of a document with rules in both lists.
C7_Witness ==
    /\ last.op = "LoadConfig"
    /\ pre.op = "SaveConfig"
    /\ Len(Config.FirewallRules) >= 2
    /\ Len(Config.PortForwardingRules) >= 2

\* C8: for every source path and content, when a default file exists Import
\* ends with a .bak file holding the default file's earlier bytes and a default
\* file holding the source's earlier bytes.
C8_ImportBacksUpAndCopies ==
    (/\ last.op = "ImportConfigFile"
     /\ Exists(pre.files, DefaultConfigPath)
     /\ Exists(pre.files, last.path)) =>
        /\ files[BackupPath] = OldDefault
        /\ NewDefault = pre.files[last.path]

\* C9: when Import fails because the source cannot be read, the default file
\* is still there with its bytes and no backup has replaced it.
C9_FailedImportKeepsDefault ==
    (last.op = "ImportConfigFile" /\ last.err = ErrReadImport) =>
        /\ NewDefault = OldDefault
        /\ files[BackupPath] = pre.files[BackupPath]

\* The bytes Import reads from its source, which it reads after the rename.
BytesRead ==
    IF Exists(pre.files, DefaultConfigPath)
    THEN (IF last.path = BackupPath THEN OldDefault
          ELSE IF last.path = DefaultConfigPath THEN NoFile
          ELSE pre.files[last.path])
    ELSE pre.files[last.path]

Mutations == {"AddFirewallRule", "UpdateFirewallRule", "DeleteFirewallRule",
              "AddPortForwardingRule", "UpdatePortForwardingRule",
              "DeletePortForwardingRule"}

\* C10: an Import of bytes that are not a valid document returns Load's error
\* with the default file overwritten by those bytes and the earlier file kept
\* as .bak; while the default file does not parse, every Add, Update and Delete
\* returns the parse error and writes no file; Save and Import replace it.
C10_BadImportIsOnlySignalled ==
    /\ (last.op = "ImportConfigFile" /\ Unparseable(BytesRead)) =>
          /\ last.err \in ParseErrors
          /\ NewDefault = BytesRead
          /\ Exists(pre.files, DefaultConfigPath) => files[BackupPath] = OldDefault
    /\ (last.op \in Mutations /\ Unparseable(OldDefault)) =>
          /\ last.err \in ParseErrors
          /\ files = pre.files
    /\ (last.op = "SaveConfig" /\ Unparseable(OldDefault)) => Parseable(NewDefault)
    /\ (last.op = "ImportConfigFile" /\ Unparseable(OldDefault) /\ Parseable(BytesRead)) =>
          last.err = "" /\ NewDefault = BytesRead

\* An Add, Update or Delete that failed on the bytes a bad Import left, the
\* earlier default file being the backup.
C10_Witness ==
    /\ last.op \in Mutations
    /\ last.err \in ParseErrors
    /\ pre.op = "ImportConfigFile"
    /\ pre.err \in ParseErrors
    /\ Parseable(files[BackupPath])

----------------------------------------------------------------------------
(* C11: the backup *)

OldBackup == pre.files[BackupPath]

\* C11: exactly one backup is kept.  Every Import that finds a default file
\* leaves its bytes as the .bak file, replacing what .bak held; so after two
\* consecutive Imports .bak holds the default file's content from just before
\* the second one (what the first one imported), and what .bak held in between
\* (the default file's content from before the first Import) is in neither of
\* the two files unless it is the very content the second Import handled, and
\* no other file was written.
C11_OneBackupKept ==
    last.op = "ImportConfigFile" =>
        /\ \A p \in Paths \ {DefaultConfigPath, BackupPath} : files[p] = pre.files[p]
        /\ Exists(pre.files, DefaultConfigPath) =>
              /\ files[BackupPath] = OldDefault
              /\ (pre.op = "ImportConfigFile" /\ OldBackup # OldDefault) =>
                    /\ files[BackupPath] # OldBackup
                    /\ NewDefault = OldBackup => BytesRead = OldBackup

\* A second Import in a row, after which the document that was the default file
\* before the first one (a saved [RuleA]) is in no file at all.
C11_Witness ==
    /\ last.op = "ImportConfigFile"
    /\ pre.op = "ImportConfigFile"
    /\ Complete(OldBackup)
    /\ HeldFilterList(OldBackup) = <<RuleA>>
    /\ files[BackupPath] = FullText
    /\ \A p \in Paths : files[p] # OldBackup

----------------------------------------------------------------------------
(* Two processes adding a rule to the same file.                           *)
(* AddFirewallRule takes no lock: what another process can see of it is    *)
(* its read of the file (in LoadConfig) and its write (in SaveConfig), so  *)
(* a call is two steps, and the other process may run between them.        *)

Procs == {1, 2}

\* What the default file may hold when the two processes start.
StartTexts == {InitialFiles[p] : p \in Paths}

\* main: fm := NewFirewallManager(); fm.LoadConfig(), its error only logged.
Started(fs, rule) ==
    LET l == LoadConfig(NewConfig, NoSpare, fs)
    IN  [pc |-> "idle", Config |-> l.Config, spare |-> l.spare, rule |-> rule, err |-> ""]

RaceInit ==
    /\ OneManager
    /\ NoUI
    /\ NoShell
    /\ \E text \in StartTexts : files = [InitialFiles EXCEPT ![DefaultConfigPath] = text]
    /\ \E r1, r2 \in FirewallRuleInputs :
          procs = [p \in Procs |-> Started(files, IF p = 1 THEN r1 ELSE r2)]
    /\ returned = <<>>
    /\ overlapped = FALSE
    /\ NoText

\* AddFirewallRule up to the return of LoadConfig.
AddLoads(p) ==
    /\ procs[p].pc = "idle"
    /\ LET l == LoadConfig(procs[p].Config, procs[p].spare, files)
       IN  /\ procs' = [procs EXCEPT ![p].Config = l.Config,
                                     ![p].spare = l.spare,
                                     ![p].err = l.err,
                                     ![p].pc = IF l.err # "" THEN "returned" ELSE "loaded"]
           /\ returned' = IF l.err # "" THEN Append(returned, p) ELSE returned
    /\ overlapped' = (overlapped \/ \E q \in Procs \ {p} : procs[q].pc = "loaded")
    /\ UNCHANGED <<storeVars, compileVars, parseVars, uiVars, shellVars>>

\* AddFirewallRule from the append to the return of SaveConfig.
AddSaves(p) ==
    /\ procs[p].pc = "loaded"
    /\ LET a == AppendRule(procs[p].Config.FirewallRules, procs[p].spare.FirewallRules,
                           procs[p].rule)
           r == SaveConfig([procs[p].Config EXCEPT !.FirewallRules = a.live],
                           [procs[p].spare EXCEPT !.FirewallRules = a.tail], files)
       IN  /\ files' = r.files
           /\ procs' = [procs EXCEPT ![p].Config = r.Config,
                                     ![p].spare = r.spare,
                                     ![p].err = r.err,
                                     ![p].pc = "returned"]
    /\ returned' = Append(returned, p)
    /\ UNCHANGED <<Config, spare, last, pre, calls, overlapped, compileVars, parseVars, uiVars, shellVars>>

RaceNext == \E p \in Procs : AddLoads(p) \/ AddSaves(p)

SpecRace == RaceInit /\ [][RaceNext]_vars

----------------------------------------------------------------------------
(* C12: the lost update *)

BothAdded == Len(returned) = 2 /\ \A p \in Procs : procs[p].err = ""

\* C12: a mutation is a load and then a save, with no lock.  When both Adds
\* returned success, the file is the document of the process that saved last,
\* and ends with the rule that process added; when the two calls did not
\* overlap, the rule of the process that returned first comes just before it,
\* so both rules are in the file; when they overlapped, the later write took
\* the place of the earlier one, and the file holds one rule more than the
\* later process had loaded, not two.
C12_AddsRaceWithoutLock ==
    BothAdded =>
        LET held == HeldFilterList(NewDefault)
            first == procs[returned[1]]
            second == procs[returned[2]]
            n == Len(held)
        IN  /\ Complete(NewDefault)
            /\ held = second.Config.FirewallRules
            /\ n >= 1
            /\ held[n] = second.rule
            /\ ~overlapped => n >= 2 /\ held[n - 1] = first.rule
            /\ overlapped => n = Len(first.Config.FirewallRules)

\* The lost update: both Adds returned success, and the rule the first one
\* added is not in the file.
C12_Witness ==
    /\ BothAdded
    /\ overlapped
    /\ procs[returned[1]].rule # procs[returned[2]].rule
    /\ \A i \in 1 .. Len(HeldFilterList(NewDefault)) :
          HeldFilterList(NewDefault)[i] # procs[returned[1]].rule

\* Two Adds one after the other, and both rules in the file.
C12_InTurn ==
    /\ BothAdded
    /\ ~overlapped
    /\ procs[returned[1]].rule # procs[returned[2]].rule

----------------------------------------------------------------------------
(* Texts.                                                                  *)
(* Where the content of a string matters (the compiler, the parser), a Go  *)
(* string is the sequence of its pieces: each of the characters the code   *)
(* looks for (space, tab, line break, comma, hyphen, colon) is a piece     *)
(* of its own, and a run of other characters is one piece.  "" is <<>>,    *)
(* "any" is <<"any">>, "80-90" is <<"80", "-", "90">>.                     *)

\* The longest rule list handed to the compiler.
MaxCompiled == 2

Whitespace == {" ", "\t", "\n"}

\* strings.Contains(s, c), c one character.
Contains(s, c) == \E i \in 1 .. Len(s) : s[i] = c

\* strings.ReplaceAll(s, old, new), old and new one character each.
ReplaceAll(s, old, new) == [i \in 1 .. Len(s) |-> IF s[i] = old THEN new ELSE s[i]]

\* strings.TrimSpace(s).
TrimSpace(s) ==
    LET kept == {i \in 1 .. Len(s) : s[i] \notin Whitespace}
    IN  IF kept = {} THEN <<>>
        ELSE SubSeq(s, CHOOSE i \in kept : \A j \in kept : i <= j,
                       CHOOSE i \in kept : \A j \in kept : i >= j)

\* strings.Split(s, sep), sep one character: never empty, [""] for "".
RECURSIVE Split(_, _)
Split(s, sep) ==
    IF ~Contains(s, sep) THEN <<s>>
    ELSE LET i == CHOOSE i \in 1 .. Len(s) : s[i] = sep /\ \A j \in 1 .. i - 1 : s[j] # sep
         IN  <<SubSeq(s, 1, i - 1)>> \o Split(SubSeq(s, i + 1, Len(s)), sep)

\* strings.Join(parts, sep).
RECURSIVE Join(_, _)
Join(parts, sep) ==
    IF parts = <<>> THEN <<>>
    ELSE IF Len(parts) = 1 THEN parts[1]
    ELSE parts[1] \o sep \o Join(Tail(parts), sep)

\* strings.Fields(s): the maximal runs of non-space characters.
RECURSIVE Fields(_)
Fields(s) ==
    IF s = <<>> THEN <<>>
    ELSE IF s[1] \in Whitespace THEN Fields(Tail(s))
    ELSE LET ends == {i \in 1 .. Len(s) : i = Len(s) \/ s[i + 1] \in Whitespace}
             e == CHOOSE i \in ends : \A j \in ends : i <= j
         IN  <<SubSeq(s, 1, e)>> \o Fields(SubSeq(s, e + 1, Len(s)))

\* A rule list's texts one after the other.
Concat(texts) == Join(texts, <<>>)

----------------------------------------------------------------------------
(* The compiler: GeneratePfConf *)

\* fmt.Sprintf("# %s\n", rule.Description), written when the description is
\* not empty.
Comment(description) ==
    IF description # <<>> THEN <<"#", " ">> \o description \o <<"\n">> ELSE <<>>

\* Mutant: the `on` clause and the interface as address whatever the rule.
RdrStrOnInterface(rule) ==
    Join(<<<<"rdr">>, <<"on">>, rule.Interface, <<"proto">>, rule.Protocol,
           <<"from">>, AnyText, <<"to">>, <<"(">> \o rule.Interface \o <<")">>,
           <<"port">>, rule.ExternalPort, <<"-", ">">>,
           rule.InternalIP, <<"port">>, rule.InternalPort>>, <<" ">>)

RdrStr(rule) ==
    IF rule.Interface = AnyText
    THEN Join(<<<<"rdr">>, <<"proto">>, rule.Protocol, <<"from">>, AnyText, <<"to">>,
                rule.ExternalIP, <<"port">>, rule.ExternalPort, <<"-", ">">>,
                rule.InternalIP, <<"port">>, rule.InternalPort>>, <<" ">>)
    ELSE LET toPart == IF rule.ExternalIP = AnyText
                       THEN <<"(">> \o rule.Interface \o <<")">>
                       ELSE rule.ExternalIP
         IN  Join(<<<<"rdr">>, <<"on">>, rule.Interface, <<"proto">>, rule.Protocol,
                    <<"from">>, AnyText, <<"to">>, toPart, <<"port">>, rule.ExternalPort,
                    <<"-", ">">>, rule.InternalIP, <<"port">>, rule.InternalPort>>, <<" ">>)

\* Mutant: udp before tcp.
ProtocolsUdpFirst(rule) ==
    IF rule.Protocol = AnyText /\ rule.Port # AnyText
    THEN <<<<"udp">>, <<"tcp">>>>
    ELSE Split(rule.Protocol, ",")

Protocols(rule) ==
    IF rule.Protocol = AnyText /\ rule.Port # AnyText
    THEN <<<<"tcp">>, <<"udp">>>>
    ELSE Split(rule.Protocol, ",")

\* Mutant: a range keeps its hyphen.
PortStrKeepingHyphen(port) ==
    IF Contains(port, ",") \/ Contains(port, "-") \/ Contains(port, ":")
    THEN <<"{">> \o port \o <<"}">>
    ELSE port

PortStr(port) ==
    IF Contains(port, ",") \/ Contains(port, "-") \/ Contains(port, ":")
    THEN <<"{">> \o ReplaceAll(port, "-", ":") \o <<"}">>
    ELSE port

\* Mutant: never `all`.
MatchPartsWithoutAll(rule, proto) ==
    (IF proto # AnyText THEN <<<<"proto">>, proto>> ELSE <<>>)
    \o (IF rule.Source # AnyText \/ rule.Destination # AnyText
        THEN <<<<"from">>, rule.Source, <<"to">>, rule.Destination>>
        ELSE IF rule.Port # AnyText THEN <<<<"from">>, AnyText, <<"to">>, AnyText>> ELSE <<>>)
    \o (IF rule.Port # AnyText /\ (proto = <<"tcp">> \/ proto = <<"udp">>)
        THEN <<<<"port">>, PortStr(rule.Port)>>
        ELSE <<>>)

\* The parts between the interface and `keep state`: what the line matches.
MatchParts(rule, proto) ==
    IF proto = AnyText /\ rule.Source = AnyText /\ rule.Destination = AnyText /\ rule.Port = AnyText
    THEN <<<<"all">>>>
    ELSE (IF proto # AnyText THEN <<<<"proto">>, proto>> ELSE <<>>)
         \o (IF rule.Source # AnyText \/ rule.Destination # AnyText
             THEN <<<<"from">>, rule.Source, <<"to">>, rule.Destination>>
             ELSE IF rule.Source = AnyText /\ rule.Destination = AnyText /\ rule.Port # AnyText
                  THEN <<<<"from">>, AnyText, <<"to">>, AnyText>>
                  ELSE <<>>)
         \o (IF rule.Port # AnyText /\ (proto = <<"tcp">> \/ proto = <<"udp">>)
             THEN <<<<"port">>, PortStr(rule.Port)>>
             ELSE <<>>)

\* One statement line of a filter rule, for one of its protocols.
FilterLine(rule, protocol) ==
    LET proto == TrimSpace(protocol)
        parts == <<rule.Action, rule.Direction>>
                 \o (IF rule.Quick THEN <<<<"quick">>>> ELSE <<>>)
                 \o (IF rule.Interface # AnyText THEN <<<<"on">>, rule.Interface>> ELSE <<>>)
                 \o MatchParts(rule, proto)
                 \o (IF rule.KeepState THEN <<<<"keep", " ", "state">>>> ELSE <<>>)
    IN  Join(parts, <<" ">>) \o <<"\n">>

\* What the first loop writes for one rule, and the second loop for one rule.
RdrText(rule) == Comment(rule.Description) \o RdrStr(rule) \o <<"\n">>

FilterText(rule) ==
    LET protocols == Protocols(rule)
    IN  Comment(rule.Description)
        \o Concat([i \in 1 .. Len(protocols) |-> FilterLine(rule, protocols[i])])

\* Mutant: the filter rules first.
GeneratePfConfFilterFirst(c) ==
    Concat([i \in 1 .. Len(c.FirewallRules) |-> FilterText(c.FirewallRules[i])])
    \o Concat([i \in 1 .. Len(c.PortForwardingRules) |-> RdrText(c.PortForwardingRules[i])])

GeneratePfConf(c) ==
    Concat([i \in 1 .. Len(c.PortForwardingRules) |-> RdrText(c.PortForwardingRules[i])])
    \o Concat([i \in 1 .. Len(c.FirewallRules) |-> FilterText(c.FirewallRules[i])])

----------------------------------------------------------------------------
(* The documents compiled.  A document has one rule out of every           *)
(* combination of field values, or two lists of a few sample rules.        *)

Descriptions == {<<>>, <<"allow", " ", "web">>, <<"web", "\n", "mail">>}

ProtocolTexts ==
    {AnyText, <<"tcp">>, <<"udp">>, <<"icmp">>, <<"tcp", ",", "udp">>,
     <<"tcp", ",", " ", "udp">>}

PortTexts ==
    {AnyText, <<"80">>, <<"80", ",", "443">>, <<"8000", "-", "8080">>,
     <<"8000", ":", "8080">>}

AddressTexts == {AnyText, <<"10.0.0.1">>}

InterfaceTexts == {AnyText, <<"en0">>}

CompiledFirewallRules ==
    {FirewallRule(action, direction, quick, interface, protocol, source, destination,
                  port, keepState, description) :
        action \in {<<"pass">>, <<"block">>}, direction \in {<<"in">>, <<"out">>},
        quick \in BOOLEAN, interface \in InterfaceTexts, protocol \in ProtocolTexts,
        source \in AddressTexts, destination \in AddressTexts, port \in PortTexts,
        keepState \in BOOLEAN, description \in Descriptions}

CompiledPortForwardingRules ==
    {PortForwardingRule(interface, protocol, externalIP, <<"80">>, <<"10.0.0.2">>,
                        <<"8080">>, description) :
        interface \in InterfaceTexts, protocol \in {<<"tcp">>, <<"udp">>},
        externalIP \in AddressTexts, description \in Descriptions}

SampleFirewallRules ==
    {FirewallRule(<<"pass">>, <<"in">>, TRUE, <<"en0">>, AnyText, AnyText, AnyText,
                  <<"80", ",", "443">>, TRUE, <<"allow", " ", "web">>),
     FirewallRule(<<"block">>, <<"out">>, FALSE, AnyText, AnyText, AnyText, AnyText,
                  AnyText, FALSE, <<>>),
     FirewallRule(<<"pass">>, <<"out">>, FALSE, AnyText, <<"tcp", ",", " ", "udp">>,
                  <<"10.0.0.1">>, AnyText, <<"8000", "-", "8080">>, FALSE,
                  <<"web", "\n", "mail">>),
     FirewallRule(<<"block">>, <<"in">>, TRUE, AnyText, <<"icmp">>, AnyText, AnyText,
                  AnyText, FALSE, <<>>)}

SamplePortForwardingRules ==
    {PortForwardingRule(<<"en0">>, <<"tcp">>, AnyText, <<"80">>, <<"10.0.0.2">>,
                        <<"8080">>, <<"allow", " ", "web">>),
     PortForwardingRule(AnyText, <<"udp">>, <<"10.0.0.1">>, <<"53">>, <<"10.0.0.3">>,
                        <<"5353">>, <<>>),
     PortForwardingRule(<<"en0">>, <<"tcp">>, <<"10.0.0.1">>, <<"25">>, <<"10.0.0.4">>,
                        <<"2525">>, <<"web", "\n", "mail">>)}

RuleLists(rules, n) == UNION {[1 .. k -> rules] : k \in 0 .. n}

Documents ==
    {[FirewallRules |-> <<rule>>, PortForwardingRules |-> <<>>] :
        rule \in CompiledFirewallRules}
    \cup {[FirewallRules |-> <<>>, PortForwardingRules |-> <<rule>>] :
            rule \in CompiledPortForwardingRules}
    \cup {[FirewallRules |-> filter, PortForwardingRules |-> rdr] :
            filter \in RuleLists(SampleFirewallRules, MaxCompiled),
            rdr \in RuleLists(SamplePortForwardingRules, MaxCompiled)}

CompileInit ==
    /\ OneManager
    /\ NoUI
    /\ NoShell
    /\ files = InitialFiles
    /\ NoRace
    /\ document \in Documents
    /\ pfConf = <<>>
    /\ output = <<>>
    /\ parsed = <<>>

Compile ==
    /\ pfConf = <<>>
    /\ pfConf' = <<GeneratePfConf(document)>>
    /\ UNCHANGED <<storeVars, raceVars, document, parseVars, uiVars, shellVars>>

CompileNext == Compile

SpecCompile == CompileInit /\ [][CompileNext]_vars

----------------------------------------------------------------------------
(* What the properties of the compiled text speak of *)

Compiled == pfConf # <<>>

\* The document is one filter rule, or one port forwarding rule.
OneFilter == Len(document.FirewallRules) = 1 /\ Len(document.PortForwardingRules) = 0

OneForward == Len(document.FirewallRules) = 0 /\ Len(document.PortForwardingRules) = 1

TheFilter == document.FirewallRules[1]

TheForward == document.PortForwardingRules[1]

\* The lines of a text, each without its line break.
Lines(text) ==
    LET pieces == Split(text, "\n")
    IN  IF pieces[Len(pieces)] = <<>> THEN SubSeq(pieces, 1, Len(pieces) - 1) ELSE pieces

\* The lines a description's comment takes: none when it is empty.
CommentLines(description) ==
    IF description = <<>> THEN <<>> ELSE Split(<<"#", " ">> \o description, "\n")

\* The lines of the compiled text after the comment of the one rule.
StatementLines(description) ==
    LET lines == Lines(pfConf[1])
    IN  SubSeq(lines, Len(CommentLines(description)) + 1, Len(lines))

EndsWith(s, t) == Len(s) >= Len(t) /\ SubSeq(s, Len(s) - Len(t) + 1, Len(s)) = t

HasToken(line, word) == \E i \in 1 .. Len(Fields(line)) : Fields(line)[i] = <<word>>

----------------------------------------------------------------------------
(* C13 .. C17: the compiled text *)

\* C13: a filter rule with protocol any and a port other than any compiles to
\* exactly two statement lines, the first with `proto tcp`, the second the
\* same line with udp in the place of tcp.
C13_AnyProtocolWithPortIsTcpThenUdp ==
    (Compiled /\ OneFilter /\ TheFilter.Protocol = AnyText /\ TheFilter.Port # AnyText) =>
        LET lines == StatementLines(TheFilter.Description)
        IN  /\ Len(lines) = 2
            /\ \E k \in 3 .. Len(lines[1]) :
                  /\ lines[1][k] = "tcp"
                  /\ lines[1][k - 2] = "proto"
                  /\ \A i \in 1 .. Len(lines[1]) : lines[1][i] = "proto" => i = k - 2
                  /\ lines[2] = [lines[1] EXCEPT ![k] = "udp"]

C13_Witness ==
    /\ Compiled
    /\ OneFilter
    /\ TheFilter.Protocol = AnyText
    /\ TheFilter.Port = <<"80", ",", "443">>
    /\ TheFilter.Quick
    /\ TheFilter.KeepState
    /\ TheFilter.Interface # AnyText
    /\ TheFilter.Source # AnyText
    /\ Len(StatementLines(TheFilter.Description)) = 2

\* C14: a filter rule whose protocol, source, destination and port are all any
\* compiles to one statement line, which has the token `all` and none of the
\* tokens proto, from, to, port.
C14_AllAnyIsAll ==
    (/\ Compiled
     /\ OneFilter
     /\ TheFilter.Protocol = AnyText
     /\ TheFilter.Source = AnyText
     /\ TheFilter.Destination = AnyText
     /\ TheFilter.Port = AnyText) =>
        LET lines == StatementLines(TheFilter.Description)
        IN  /\ Len(lines) = 1
            /\ HasToken(lines[1], "all")
            /\ \A word \in {"proto", "from", "to", "port"} : ~HasToken(lines[1], word)

C14_Witness ==
    /\ Compiled
    /\ OneFilter
    /\ TheFilter.Protocol = AnyText
    /\ TheFilter.Source = AnyText
    /\ TheFilter.Destination = AnyText
    /\ TheFilter.Port = AnyText
    /\ TheFilter.Interface # AnyText
    /\ TheFilter.KeepState
    /\ HasToken(StatementLines(TheFilter.Description)[1], "all")

\* C15: in every compiled filter line with a port clause, the clause is the
\* last one before `keep state`, and is `port` followed by the port field: in
\* braces and with every hyphen turned into a colon when the field has a
\* comma, a hyphen or a colon, as it is otherwise.
C15_PortListOrRangeIsBraced ==
    (Compiled /\ OneFilter) =>
        LET port == TheFilter.Port
            listed == \E c \in {",", "-", ":"} : \E i \in 1 .. Len(port) : port[i] = c
            emitted == IF listed
                       THEN <<"{">> \o [i \in 1 .. Len(port) |->
                                          IF port[i] = "-" THEN ":" ELSE port[i]] \o <<"}">>
                       ELSE port
            state == IF TheFilter.KeepState THEN <<" ", "keep", " ", "state">> ELSE <<>>
            lines == StatementLines(TheFilter.Description)
        IN  \A n \in 1 .. Len(lines) :
                HasToken(lines[n], "port") =>
                    EndsWith(lines[n], <<" ", "port", " ">> \o emitted \o state)

C15_Witness ==
    /\ Compiled
    /\ OneFilter
    /\ TheFilter.Port = <<"8000", "-", "8080">>
    /\ TheFilter.Protocol = <<"tcp", ",", " ", "udp">>
    /\ TheFilter.KeepState
    /\ LET lines == StatementLines(TheFilter.Description)
       IN  /\ Len(lines) = 2
           /\ EndsWith(lines[2], <<"port", " ", "{", "8000", ":", "8080", "}", " ",
                                   "keep", " ", "state">>)

\* A line of the text is the statement of this port forwarding rule, or a
\* statement of this filter rule.
IsRdrOf(line, rule) ==
    LET tokens == Fields(line)
    IN  Len(tokens) >= 2 /\ tokens[1] = <<"rdr">> /\ tokens[Len(tokens)] = rule.InternalPort

IsFilterOf(line, rule) ==
    LET tokens == Fields(line)
    IN  Len(tokens) >= 2 /\ tokens[1] = rule.Action /\ tokens[2] = rule.Direction

\* The lines are, rule after rule and the port forwarding rules first: the
\* rule's comment when it has a description, then its statement (its
\* statements, one or more, for a filter rule), and nothing else.
RECURSIVE InDocumentOrder(_, _, _)
InDocumentOrder(lines, forwards, filters) ==
    IF forwards # <<>>
    THEN LET n == Len(CommentLines(Head(forwards).Description))
         IN  /\ Len(lines) > n
             /\ SubSeq(lines, 1, n) = CommentLines(Head(forwards).Description)
             /\ IsRdrOf(lines[n + 1], Head(forwards))
             /\ InDocumentOrder(SubSeq(lines, n + 2, Len(lines)), Tail(forwards), filters)
    ELSE IF filters # <<>>
    THEN LET n == Len(CommentLines(Head(filters).Description))
         IN  /\ Len(lines) > n
             /\ SubSeq(lines, 1, n) = CommentLines(Head(filters).Description)
             /\ \E k \in 1 .. Len(lines) - n :
                   /\ \A i \in 1 .. k : IsFilterOf(lines[n + i], Head(filters))
                   /\ InDocumentOrder(SubSeq(lines, n + k + 1, Len(lines)), <<>>,
                                      Tail(filters))
    ELSE lines = <<>>

\* C16: the compiled text has every port forwarding statement before any
\* filter statement, the rules of each list in document order, and before
\* each rule's first statement, and only there, `# ` and its description when
\* that is not empty; every line ends with a line break, and a document with
\* two empty lists compiles to the empty text.
C16_ForwardsThenFiltersInOrder ==
    Compiled =>
        /\ pfConf[1] = <<>> \/ pfConf[1][Len(pfConf[1])] = "\n"
        /\ InDocumentOrder(Lines(pfConf[1]), document.PortForwardingRules,
                           document.FirewallRules)
        /\ (document.PortForwardingRules = <<>> /\ document.FirewallRules = <<>>)
              => pfConf[1] = <<>>

C16_Witness ==
    /\ Compiled
    /\ Len(document.PortForwardingRules) = 2
    /\ Len(document.FirewallRules) = 2
    /\ document.PortForwardingRules[1].Description = <<>>
    /\ document.PortForwardingRules[2].Description # <<>>
    /\ document.FirewallRules[1].Protocol = AnyText
    /\ document.FirewallRules[1].Port # AnyText
    /\ document.FirewallRules[2].Action # document.FirewallRules[1].Action
    /\ Len(Lines(pfConf[1])) = 7

\* C17: a port forwarding rule on interface any compiles to
\* `rdr proto P from any to X port EP -> IIP port IP`, X the external address
\* as it is; on another interface to
\* `rdr on I proto P from any to T port EP -> IIP port IP`, T being `(I)` when
\* the external address is any and the external address otherwise.
C17_RdrStatement ==
    (Compiled /\ OneForward) =>
        LET r == TheForward
            target == IF r.ExternalIP = AnyText
                      THEN <<"(">> \o r.Interface \o <<")">>
                      ELSE r.ExternalIP
            rest == <<" ", "port", " ">> \o r.ExternalPort \o <<" ", "-", ">", " ">>
                    \o r.InternalIP \o <<" ", "port", " ">> \o r.InternalPort
        IN  StatementLines(r.Description) =
                IF r.Interface = AnyText
                THEN << <<"rdr", " ", "proto", " ">> \o r.Protocol
                        \o <<" ", "from", " ", "any", " ", "to", " ">> \o r.ExternalIP
                        \o rest >>
                ELSE << <<"rdr", " ", "on", " ">> \o r.Interface \o <<" ", "proto", " ">>
                        \o r.Protocol \o <<" ", "from", " ", "any", " ", "to", " ">>
                        \o target \o rest >>

C17_Witness ==
    /\ Compiled
    /\ OneForward
    /\ TheForward.Interface = AnyText
    /\ TheForward.ExternalIP = AnyText
    /\ ~HasToken(StatementLines(TheForward.Description)[1], "on")

----------------------------------------------------------------------------
(* The parser of the live rules: ParseLiveRules *)

\* The most tokens on a line, the most lines in an output, and the number of
\* times one output is parsed.
MaxTokens == 5

MaxLines == 2

MaxParses == 2

\* rule := FirewallRule{}, its strings as texts.
BlankFirewallRule ==
    FirewallRule(<<>>, <<>>, FALSE, <<>>, <<>>, <<>>, <<>>, <<>>, FALSE, <<>>)

\* The keywords whose case reads parts[i] after i++, and the field it sets.
ValueKeywords == {<<"on">>, <<"proto">>, <<"from">>, <<"to">>, <<"port">>}

FieldOf(keyword) ==
    CASE keyword = <<"on">>    -> "Interface"
      [] keyword = <<"proto">> -> "Protocol"
      [] keyword = <<"from">>  -> "Source"
      [] keyword = <<"to">>    -> "Destination"
      [] keyword = <<"port">>  -> "Port"

\* The loop over parts, from the Go index i - 1 on.  Reading parts[i] past the
\* end of the slice is a run-time panic: index out of range.
RECURSIVE ScanParts(_, _, _)
ScanParts(parts, i, rule) ==
    IF i > Len(parts) THEN [panic |-> FALSE, rule |-> rule]
    ELSE IF parts[i] = <<"quick">>
    THEN ScanParts(parts, i + 1, [rule EXCEPT !.Quick = TRUE])
    ELSE IF parts[i] \in ValueKeywords
    THEN IF i + 1 > Len(parts)
         THEN [panic |-> TRUE, rule |-> rule]
         ELSE ScanParts(parts, i + 2, [rule EXCEPT ![FieldOf(parts[i])] = parts[i + 1]])
    ELSE IF parts[i] = <<"keep">>
    THEN ScanParts(parts, i + 2, [rule EXCEPT !.KeepState = TRUE])
    ELSE ScanParts(parts, i + 1, rule)

\* The minimum of len(parts) for a line to be a rule.
MinParts == 4

\* The loop over lines; a panic ends the call, and nothing is returned.
RECURSIVE ParseLines(_, _)
ParseLines(lines, rules) ==
    IF lines = <<>> THEN [panic |-> FALSE, rules |-> rules, err |-> ""]
    ELSE IF TrimSpace(Head(lines)) = <<>> \/ Len(Fields(Head(lines))) < MinParts
    THEN ParseLines(Tail(lines), rules)
    ELSE LET parts == Fields(Head(lines))
             scan == ScanParts(parts, 3, [BlankFirewallRule EXCEPT !.Action = parts[1],
                                                                   !.Direction = parts[2]])
         IN  IF scan.panic
             THEN [panic |-> TRUE, rules |-> <<>>, err |-> ""]
             ELSE ParseLines(Tail(lines), Append(rules, scan.rule))

ParseLiveRules(text) == ParseLines(Split(text, "\n"), <<>>)

\* The outputs parsed: one line of two leading tokens and up to MaxTokens - 2
\* more out of a few words, or up to MaxLines lines out of a few sample lines.
Words ==
    {<<"quick">>, <<"keep">>, <<"state">>, <<"tcp">>} \cup ValueKeywords

Heads == {<<<<"pass">>, <<"in">>>>, <<<<"block">>, <<"out">>>>, <<<<"on">>, <<"quick">>>>}

SampleLines ==
    {Join(<<<<"pass">>, <<"in">>, <<"proto">>, <<"tcp">>, <<"from">>, <<"any">>,
            <<"to">>, <<"any">>, <<"port">>, <<"22">>, <<"keep">>, <<"state">>>>, <<" ">>),
     <<"block", " ", "out", "\t", "on", " ", " ", "lo0", " ", "all">>,
     <<"pass", " ", "out", " ", "quick", " ", "on">>,
     <<"block", " ", "in", " ", "all">>,
     <<" ", " ">>,
     <<>>}

Outputs ==
    {Join(head \o tail, <<" ">>) :
        head \in Heads, tail \in UNION {[1 .. k -> Words] : k \in 0 .. MaxTokens - 2}}
    \cup {Join(lines, <<"\n">>) :
            lines \in UNION {[1 .. k -> SampleLines] : k \in 2 .. MaxLines}}

ParseInit ==
    /\ OneManager
    /\ NoUI
    /\ NoShell
    /\ files = InitialFiles
    /\ NoRace
    /\ document = NewConfig
    /\ pfConf = <<>>
    /\ output \in Outputs
    /\ parsed = <<>>

\* A call of ParseLiveRules(output); after a panic there is no other.
Parse ==
    /\ Len(parsed) < MaxParses
    /\ \A n \in 1 .. Len(parsed) : ~parsed[n].panic
    /\ parsed' = Append(parsed, ParseLiveRules(output))
    /\ UNCHANGED <<storeVars, raceVars, compileVars, output, uiVars, shellVars>>

ParseNext == Parse

SpecParse == ParseInit /\ [][ParseNext]_vars

----------------------------------------------------------------------------
(* C18 .. C20: the parsed rules *)

\* The lines of the output that have four tokens or more.
IsLong(line) == Len(Fields(line)) >= 4

LongLines == SelectSeq(Split(output, "\n"), IsLong)

\* Token i of a line is looked at as a possible keyword: it is behind the
\* first two, and is not the token behind a keyword that takes the next token.
RECURSIVE Scanned(_, _)
Scanned(tokens, i) ==
    /\ i >= 3
    /\ ~(Scanned(tokens, i - 1)
         /\ tokens[i - 1] \in {<<"on">>, <<"proto">>, <<"from">>, <<"to">>, <<"port">>,
                               <<"keep">>})

ScannedAs(tokens, word) == {i \in 3 .. Len(tokens) : Scanned(tokens, i) /\ tokens[i] = <<word>>}

\* The line ends in a keyword that is scanned and reads the token behind it.
EndsInKeyword(tokens) ==
    \E word \in {"on", "proto", "from", "to", "port"} : Len(tokens) \in ScannedAs(tokens, word)

Returned == parsed # <<>> /\ ~parsed[1].panic

\* C18: the parser never fails the whole parse: every call completes and
\* returns a rule list and no error, whatever the text.
C18_ParseNeverFails ==
    \A n \in 1 .. Len(parsed) : ~parsed[n].panic /\ parsed[n].err = ""

\* C18, as the code has it: a call fails to return exactly when a line of four
\* tokens or more ends in a scanned on, proto, from, to or port; a call that
\* returns returns no error.
C18_FailsOnTrailingKeyword ==
    parsed # <<>> =>
        /\ parsed[1].err = ""
        /\ parsed[1].panic <=>
              \E k \in 1 .. Len(LongLines) : EndsInKeyword(Fields(LongLines[k]))

\* One rule for each line of four tokens or more, in the order of the lines.
OneRulePerLongLine ==
    /\ Len(parsed[1].rules) = Len(LongLines)
    /\ \A k \in 1 .. Len(LongLines) :
          /\ parsed[1].rules[k].Action = Fields(LongLines[k])[1]
          /\ parsed[1].rules[k].Direction = Fields(LongLines[k])[2]

\* C19: the call returns exactly one rule for each input line of four
\* whitespace-separated tokens or more, in input order, and none for a blank
\* line or a line of fewer tokens.
C19_OneRulePerLongLine == parsed # <<>> => OneRulePerLongLine

\* C19 for the calls that return.
C19_WhenReturned == Returned => OneRulePerLongLine

\* The rule is what the claim makes of the tokens of its line.
ParsedFrom(rule, tokens) ==
    /\ rule.Action = tokens[1]
    /\ rule.Direction = tokens[2]
    /\ rule.Description = <<>>
    /\ rule.Quick <=> ScannedAs(tokens, "quick") # {}
    /\ rule.KeepState <=> ScannedAs(tokens, "keep") # {}
    /\ \A key \in {<<"on", "Interface">>, <<"proto", "Protocol">>, <<"from", "Source">>,
                   <<"to", "Destination">>, <<"port", "Port">>} :
          IF ScannedAs(tokens, key[1]) = {}
          THEN rule[key[2]] = <<>>
          ELSE \E i \in ScannedAs(tokens, key[1]) :
                  i < Len(tokens) /\ rule[key[2]] = tokens[i + 1]

FieldsFollowKeywords ==
    /\ Len(parsed[1].rules) = Len(LongLines)
    /\ \A k \in 1 .. Len(LongLines) : ParsedFrom(parsed[1].rules[k], Fields(LongLines[k]))
    /\ \A n \in 1 .. Len(parsed) : parsed[n] = parsed[1]

\* C20: for every line of four tokens or more the parsed rule has the first
\* token as action, the second as direction, each of interface, protocol,
\* source, destination and port equal to the token behind a scanned on, proto,
\* from, to, port (empty when none is scanned), quick and keep-state set iff a
\* quick, a keep is scanned, a token taken as a value not being scanned; and
\* parsing the text again gives an equal result.
C20_FieldsFollowKeywords == parsed # <<>> => FieldsFollowKeywords

\* C20 for the calls that return.
C20_WhenReturned == Returned => FieldsFollowKeywords

----------------------------------------------------------------------------
(* The parser on the text of the compiler: one filter rule is compiled,    *)
(* and the text is handed to ParseLiveRules.                               *)

\* Descriptions of one, two, three and four words, and of two lines.
RoundTripDescriptions ==
    Descriptions \cup {<<"web">>, <<"allow", " ", "web", " ", "in">>,
                       <<"allow", " ", "web", " ", "traffic", " ", "in">>}

RoundTripInit ==
    /\ OneManager
    /\ NoUI
    /\ NoShell
    /\ files = InitialFiles
    /\ NoRace
    /\ \E rule \in CompiledFirewallRules, description \in RoundTripDescriptions :
          document = [FirewallRules |-> <<[rule EXCEPT !.Description = description]>>,
                      PortForwardingRules |-> <<>>]
    /\ pfConf = <<>>
    /\ output = <<>>
    /\ parsed = <<>>

\* ParseLiveRules on the text GeneratePfConf returned.
ParseCompiled ==
    /\ pfConf # <<>>
    /\ parsed = <<>>
    /\ output' = pfConf[1]
    /\ parsed' = <<ParseLiveRules(pfConf[1])>>
    /\ UNCHANGED <<storeVars, raceVars, compileVars, uiVars, shellVars>>

RoundTripNext == Compile \/ ParseCompiled

SpecRoundTrip == RoundTripInit /\ [][RoundTripNext]_vars

----------------------------------------------------------------------------
(* C21: compile, then parse *)

AnyProtocolWithPort ==
    /\ parsed # <<>>
    /\ OneFilter
    /\ TheFilter.Protocol = AnyText
    /\ TheFilter.Port # AnyText

TcpAndUdpRule ==
    /\ ~parsed[1].panic
    /\ Len(parsed[1].rules) = 2
    /\ parsed[1].rules[1].Protocol = <<"tcp">>
    /\ parsed[1].rules[2].Protocol = <<"udp">>

\* C21: for a filter rule with protocol any and a port other than any,
\* whatever its other fields and its description, parsing the compiled text
\* gives exactly two rules, one with protocol tcp and one with protocol udp.
C21_AnyProtocolParsesAsTcpAndUdp == AnyProtocolWithPort => TcpAndUdpRule

\* C21 for a description of at most two words on each of its lines, whose
\* comment lines have fewer than four tokens.
C21_WithShortDescription ==
    (AnyProtocolWithPort
     /\ \A n \in 1 .. Len(CommentLines(TheFilter.Description)) :
           Len(Fields(CommentLines(TheFilter.Description)[n])) < 4) => TcpAndUdpRule

----------------------------------------------------------------------------
(* The terminal user interface: the model, its key handler, the commands   *)
(* the handler returns, and the handler of the messages they deliver.      *)
(* m is the model struct; cmds holds the commands the runtime has started, *)
(* each in a goroutine of its own; msgs is the runtime's message channel.  *)

\* The key presses of one run that changed the model or started a command.
MaxKeys == 4

\* The commands running and the messages not yet handled, taken together.
MaxPending == 4

\* The keys the user presses; a one-letter key is also the rune it types.
Keys == {"up", "down", "left", "right", "enter", "esc",
         "a", "d", "j", "k", "n", "q", "s", "y"}

Runes == {"a", "d", "j", "k", "n", "q", "s", "y"}

\* The titles of the main menu, in the order NewModel lists them.
MainItems ==
    <<"Edit Firewall Rule", "Add New Firewall Rule", "Edit Port Forwarding Rule",
      "Add Port Forwarding Rule", "---", "Save & Apply Configuration",
      "Export Configuration", "Import Configuration", "---", "Show Current Rules",
      "Show Info", "---", "Enable PF", "Disable PF", "Enable PF on Startup",
      "Disable PF on Startup", "---", "Exit">>

\* A list component: the cursor (counted from 0) and the items it was given.
\* An item of a rule list is the rule and its index, which is its position.
List(index, items) == [index |-> index, items |-> items]

\* list.Model.SelectedItem: nil when the cursor is on no item.
HasSelectedItem(l) == l.index >= 0 /\ l.index < Len(l.items)

\* list.Model.Update on a key: up and k move the cursor up, down and j move it
\* down, and it stops at both ends.
ListUpdate(l, key) ==
    IF key \in {"up", "k"} /\ l.index > 0
    THEN [l EXCEPT !.index = l.index - 1]
    ELSE IF key \in {"down", "j"} /\ l.index < Len(l.items) - 1
    THEN [l EXCEPT !.index = l.index + 1]
    ELSE l

\* textinput.Model.Update on a key while the input has the focus: a rune is
\* put at the end of the value, where the cursor is after SetValue.
TextInputUpdate(value, key) == IF key \in Runes THEN Append(value, key) ELSE value

newRuleForm ==
    [isNew |-> FALSE, ruleIndex |-> 0, focused |-> 0, activeTextInput |-> -1,
     action |-> <<"block">>, direction |-> <<"in">>, quick |-> "No",
     protocol |-> AnyText, keepState |-> "No", interfaceInput |-> AnyText,
     sourceInput |-> AnyText, destinationInput |-> AnyText, portInput |-> AnyText,
     descriptionInput |-> <<>>]

newPortForwardingForm ==
    [isNew |-> FALSE, ruleIndex |-> 0, focused |-> 0, activeTextInput |-> -1,
     protocol |-> <<"tcp">>, interfaceInput |-> AnyText, externalIPInput |-> AnyText,
     externalPortInput |-> <<>>, internalIPInput |-> <<"127.0.0.1">>,
     internalPortInput |-> <<>>, descriptionInput |-> <<>>]

YesNo(b) == IF b THEN "Yes" ELSE "No"

\* The rule form filled from the rule the list's selected item names.
RuleFormOf(rule, index) ==
    [newRuleForm EXCEPT !.ruleIndex = index, !.action = rule.Action,
                        !.direction = rule.Direction, !.quick = YesNo(rule.Quick),
                        !.interfaceInput = rule.Interface, !.protocol = rule.Protocol,
                        !.sourceInput = rule.Source,
                        !.destinationInput = rule.Destination,
                        !.portInput = rule.Port, !.keepState = YesNo(rule.KeepState),
                        !.descriptionInput = rule.Description]

PortForwardingFormOf(rule, index) ==
    [newPortForwardingForm EXCEPT !.ruleIndex = index,
                                  !.interfaceInput = rule.Interface,
                                  !.protocol = rule.Protocol,
                                  !.externalIPInput = rule.ExternalIP,
                                  !.externalPortInput = rule.ExternalPort,
                                  !.internalIPInput = rule.InternalIP,
                                  !.internalPortInput = rule.InternalPort,
                                  !.descriptionInput = rule.Description]

\* The rule saveRule builds from the form.
FormRule(form) ==
    FirewallRule(form.action, form.direction, form.quick = "Yes", form.interfaceInput,
                 form.protocol, form.sourceInput, form.destinationInput,
                 form.portInput, form.keepState = "Yes", form.descriptionInput)

\* The rule savePortForwardingRule builds from the form.
FormPortForwardingRule(form) ==
    PortForwardingRule(form.interfaceInput, form.protocol, form.externalIPInput,
                       form.externalPortInput, form.internalIPInput,
                       form.internalPortInput, form.descriptionInput)

\* A command: the call its closure makes with the values the closure captured
\* (the selected item's index and rule, the form's rule, the path), the view
\* whose handler returned it, and the command tea.Sequence runs after it.
Cmd(op, index, rule, fwd, path, view, then) ==
    [op |-> op, index |-> index, rule |-> rule, fwd |-> fwd, path |-> path,
     view |-> view, then |-> then]

\* A command that captures nothing.
Plain(op, view) == Cmd(op, 0, ZeroFirewallRule, ZeroPortForwardingRule, NoPath, view, "")

\* What Update returns: the model, the manager's document as the handler left
\* it, and the commands handed to the runtime.
Handled(mm, c, sp, new) == [m |-> mm, Config |-> c, spare |-> sp, cmds |-> new]

\* The readings time.Now().Format("20060102-150405") gives in one run.
Clock == <<"20260101-120000", "20260101-120001">>

\* filepath.Join(configPath, "rules-export-<timestamp>.json"), as a path below
\* the configuration directory like the others.
ExportPath(now) == <<"rules-export-", now, ".json">>

\* The model NewModel returns.
NewModel ==
    [currentView |-> "mainView", previousView |-> "mainView", confirming |-> FALSE,
     exited |-> "", list |-> 0, ruleList |-> List(0, <<>>),
     portForwardingList |-> List(0, <<>>), fileList |-> List(0, <<>>),
     textinput |-> <<>>, pfStatus |-> "Checking...", startupStatus |-> "Unknown",
     statusMessage |-> "", infoViewTitle |-> "", viewport |-> "",
     form |-> newRuleForm, portForwardingForm |-> newPortForwardingForm]

\* updateRuleList, getRuleListItems and SetItems: the list shows the manager's
\* rules as they are now; the cursor stays.
updateRuleList(mm, c) == [mm EXCEPT !.ruleList.items = c.FirewallRules]

updatePortForwardingList(mm, c) ==
    [mm EXCEPT !.portForwardingList.items = c.PortForwardingRules]

\* The esc case that comes before every view's own cases.
KeyEsc(mm, c, sp) ==
    IF mm.currentView = "mainView"
    THEN Handled([mm EXCEPT !.previousView = "mainView",
                            !.currentView = "confirmationView",
                            !.confirming = TRUE], c, sp, <<>>)
    ELSE Handled([mm EXCEPT !.currentView = "mainView"], c, sp, <<>>)

\* enter on the main menu, by the title of the selected item.
KeyMainEnter(mm, c, sp, now) ==
    LET title == MainItems[mm.list + 1]
    IN  CASE title = "Add New Firewall Rule" ->
               Handled([mm EXCEPT !.currentView = "ruleFormView",
                                  !.form = [newRuleForm EXCEPT !.isNew = TRUE]],
                       c, sp, <<>>)
          [] title = "Edit Firewall Rule" ->
               Handled(updateRuleList([mm EXCEPT !.currentView = "ruleListView"], c),
                       c, sp, <<>>)
          [] title = "Add Port Forwarding Rule" ->
               Handled([mm EXCEPT !.currentView = "portForwardingFormView",
                                  !.portForwardingForm =
                                      [newPortForwardingForm EXCEPT !.isNew = TRUE]],
                       c, sp, <<>>)
          [] title = "Edit Port Forwarding Rule" ->
               Handled(updatePortForwardingList(
                           [mm EXCEPT !.currentView = "portForwardingListView"], c),
                       c, sp, <<>>)
          [] title = "Show Info" ->
               Handled([mm EXCEPT !.currentView = "infoView",
                                  !.infoViewTitle = "Live PF Info",
                                  !.viewport = "Loading..."],
                       c, sp, <<Plain("getPfInfo", "mainView"),
                                Plain("infoRefresh", "mainView")>>)
          [] title = "Show Current Rules" ->
               Handled([mm EXCEPT !.currentView = "infoView",
                                  !.infoViewTitle = "Current Live PF Rules",
                                  !.viewport = "Loading..."],
                       c, sp, <<Plain("getCurrentRules", "mainView")>>)
          [] title = "Enable PF" -> Handled(mm, c, sp, <<Plain("enablePf", "mainView")>>)
          [] title = "Disable PF" -> Handled(mm, c, sp, <<Plain("disablePf", "mainView")>>)
          [] title = "Enable PF on Startup" ->
               Handled(mm, c, sp, <<Plain("enablePfOnStartup", "mainView")>>)
          [] title = "Disable PF on Startup" ->
               Handled(mm, c, sp, <<Plain("disablePfOnStartup", "mainView")>>)
          [] title = "Save & Apply Configuration" ->
               Handled(mm, c, sp, <<Plain("saveAndApplyRules", "mainView")>>)
          [] title = "Export Configuration" ->
               Handled([mm EXCEPT !.currentView = "saveConfigView",
                                  !.textinput = ExportPath(now)], c, sp, <<>>)
          [] title = "Import Configuration" ->
               Handled([mm EXCEPT !.currentView = "importConfigView"],
                       c, sp, <<Plain("updateFileList", "mainView")>>)
          [] title = "Exit" ->
               Handled([mm EXCEPT !.previousView = "mainView",
                                  !.currentView = "confirmationView",
                                  !.confirming = TRUE], c, sp, <<>>)
          [] OTHER -> Handled(mm, c, sp, <<>>)

\* The main menu: the selection goes round at both ends.
KeyMain(mm, c, sp, key, now) ==
    CASE key \in {"up", "k"} ->
           Handled([mm EXCEPT !.list = IF mm.list = 0 THEN Len(MainItems) - 1
                                       ELSE mm.list - 1], c, sp, <<>>)
      [] key \in {"down", "j"} ->
           Handled([mm EXCEPT !.list = IF mm.list = Len(MainItems) - 1 THEN 0
                                       ELSE mm.list + 1], c, sp, <<>>)
      [] key = "enter" -> KeyMainEnter(mm, c, sp, now)
      [] OTHER -> Handled(mm, c, sp, <<>>)

\* A rule list's Update returns tea.Quit on q: the lists keep the component's
\* default key bindings.
ListQuit(mm, key) == IF key = "q" THEN [mm EXCEPT !.exited = "quit"] ELSE mm

\* The firewall rule list. k and j return before the list component sees them.
KeyRuleList(mm, c, sp, fs, key) ==
    LET idx == mm.ruleList.index
        l == ListUpdate(mm.ruleList, key)
        seen == ListQuit([mm EXCEPT !.ruleList = l], key)
    IN  CASE key = "k" ->
               IF idx > 0
               THEN LET r == MoveFirewallRule(c, sp, fs, idx, idx - 1)
                    IN  Handled([updateRuleList(mm, r.Config)
                                    EXCEPT !.ruleList.index = idx - 1],
                                r.Config, r.spare, <<>>)
               ELSE Handled(mm, c, sp, <<>>)
          [] key = "j" ->
               IF idx < Len(c.FirewallRules) - 1
               THEN LET r == MoveFirewallRule(c, sp, fs, idx, idx + 1)
                    IN  Handled([updateRuleList(mm, r.Config)
                                    EXCEPT !.ruleList.index = idx + 1],
                                r.Config, r.spare, <<>>)
               ELSE Handled(mm, c, sp, <<>>)
          [] key = "a" ->
               Handled([seen EXCEPT !.currentView = "ruleFormView",
                                    !.form = [newRuleForm EXCEPT !.isNew = TRUE]],
                       c, sp, <<>>)
          [] key = "enter" /\ HasSelectedItem(l) ->
               IF l.index >= Len(c.FirewallRules)
               THEN Handled([seen EXCEPT !.exited = "panic"], c, sp, <<>>)
               ELSE Handled([seen EXCEPT !.currentView = "ruleFormView",
                                         !.form = RuleFormOf(c.FirewallRules[l.index + 1],
                                                             l.index)],
                            c, sp, <<>>)
          [] key = "d" /\ HasSelectedItem(l) ->
               Handled(updateRuleList(seen, c), c, sp,
                       <<Cmd("DeleteFirewallRule", l.index, l.items[l.index + 1],
                             ZeroPortForwardingRule, NoPath, "ruleListView", "")>>)
          [] key = "s" -> Handled(seen, c, sp, <<Plain("SaveConfig", "ruleListView")>>)
          [] OTHER -> Handled(seen, c, sp, <<>>)

\* The port forwarding list. The list component sees every key first.
KeyPortForwardingList(mm, c, sp, fs, key) ==
    LET l == ListUpdate(mm.portForwardingList, key)
        seen == ListQuit([mm EXCEPT !.portForwardingList = l], key)
    IN  CASE key = "a" ->
               Handled([seen EXCEPT !.currentView = "portForwardingFormView",
                                    !.portForwardingForm =
                                        [newPortForwardingForm EXCEPT !.isNew = TRUE]],
                       c, sp, <<>>)
          [] key = "enter" /\ HasSelectedItem(l) ->
               IF l.index >= Len(c.PortForwardingRules)
               THEN Handled([seen EXCEPT !.exited = "panic"], c, sp, <<>>)
               ELSE Handled([seen EXCEPT !.currentView = "portForwardingFormView",
                                         !.portForwardingForm =
                                             PortForwardingFormOf(
                                                 c.PortForwardingRules[l.index + 1],
                                                 l.index)],
                            c, sp, <<>>)
          [] key = "d" /\ HasSelectedItem(l) ->
               Handled(seen, c, sp,
                       <<Cmd("DeletePortForwardingRule", l.index, ZeroFirewallRule,
                             l.items[l.index + 1], NoPath, "portForwardingListView",
                             "updatePortForwardingList")>>)
          [] key = "k" /\ HasSelectedItem(l) ->
               LET r == MovePortForwardingRule(c, sp, fs, l.index, l.index - 1)
               IN  Handled(updatePortForwardingList(seen, r.Config), r.Config, r.spare, <<>>)
          [] key = "j" /\ HasSelectedItem(l) ->
               LET r == MovePortForwardingRule(c, sp, fs, l.index, l.index + 1)
               IN  Handled(updatePortForwardingList(seen, r.Config), r.Config, r.spare, <<>>)
          [] key = "s" ->
               Handled(seen, c, sp, <<Plain("SaveConfig", "portForwardingListView")>>)
          [] OTHER -> Handled(seen, c, sp, <<>>)

\* The text inputs of the two forms, by the position of their field.
RuleInputs ==
    (3 :> "interfaceInput") @@ (5 :> "sourceInput") @@ (6 :> "destinationInput")
        @@ (7 :> "portInput") @@ (9 :> "descriptionInput")

PortForwardingInputs ==
    (0 :> "interfaceInput") @@ (2 :> "externalIPInput") @@ (3 :> "externalPortInput")
        @@ (4 :> "internalIPInput") @@ (5 :> "internalPortInput")
        @@ (6 :> "descriptionInput")

\* The protocol options left and right step through.
ProtocolOptions == <<(<<"tcp">>), (<<"udp">>), (<<"tcp", ",", "udp">>), (<<"icmp">>), AnyText>>

\* The option `by` places after the form's protocol, going round; a protocol
\* that is no option stays.
NextProtocol(protocol, by) ==
    IF \E i \in 1..Len(ProtocolOptions) : ProtocolOptions[i] = protocol
    THEN LET i == CHOOSE j \in 1..Len(ProtocolOptions) : ProtocolOptions[j] = protocol
         IN  ProtocolOptions[((i - 1 + by + Len(ProtocolOptions)) % Len(ProtocolOptions)) + 1]
    ELSE protocol

\* left and right on the focused option of the rule form.
RuleFormOption(form, by) ==
    CASE form.focused = 0 ->
           [form EXCEPT !.action = IF @ = <<"block">> THEN <<"pass">> ELSE <<"block">>]
      [] form.focused = 1 ->
           [form EXCEPT !.direction = IF @ = <<"in">> THEN <<"out">> ELSE <<"in">>]
      [] form.focused = 2 -> [form EXCEPT !.quick = IF @ = "Yes" THEN "No" ELSE "Yes"]
      [] form.focused = 4 -> [form EXCEPT !.protocol = NextProtocol(@, by)]
      [] form.focused = 8 -> [form EXCEPT !.keepState = IF @ = "Yes" THEN "No" ELSE "Yes"]
      [] OTHER -> form

\* The Add/Edit firewall rule form.
KeyRuleForm(mm, c, sp, key) ==
    LET form == mm.form
    IN  IF form.activeTextInput # -1
        THEN LET typed == [form EXCEPT ![RuleInputs[form.activeTextInput]] =
                                           TextInputUpdate(@, key)]
             IN  IF key = "enter"
                 THEN Handled([mm EXCEPT !.form = [typed EXCEPT !.activeTextInput = -1]],
                              c, sp, <<>>)
                 ELSE Handled([mm EXCEPT !.form = typed], c, sp, <<>>)
        ELSE CASE key = "s" ->
                    Handled(mm, c, sp,
                            <<Cmd(IF form.isNew THEN "AddFirewallRule"
                                  ELSE "UpdateFirewallRule",
                                  form.ruleIndex, FormRule(form), ZeroPortForwardingRule,
                                  NoPath, "ruleFormView", "")>>)
               [] key = "enter" /\ form.focused \in DOMAIN RuleInputs ->
                    Handled([mm EXCEPT !.form.activeTextInput = form.focused], c, sp, <<>>)
               [] key = "up" ->
                    Handled([mm EXCEPT !.form.focused = (form.focused - 1 + 10) % 10],
                            c, sp, <<>>)
               [] key = "down" ->
                    Handled([mm EXCEPT !.form.focused = (form.focused + 1) % 10], c, sp, <<>>)
               [] key = "left" ->
                    Handled([mm EXCEPT !.form = RuleFormOption(form, -1)], c, sp, <<>>)
               [] key = "right" ->
                    Handled([mm EXCEPT !.form = RuleFormOption(form, 1)], c, sp, <<>>)
               [] OTHER -> Handled(mm, c, sp, <<>>)

\* The Add/Edit port forwarding rule form.
KeyPortForwardingForm(mm, c, sp, key) ==
    LET form == mm.portForwardingForm
    IN  IF form.activeTextInput # -1
        THEN LET typed == [form EXCEPT ![PortForwardingInputs[form.activeTextInput]] =
                                           TextInputUpdate(@, key)]
             IN  IF key = "enter"
                 THEN Handled([mm EXCEPT !.portForwardingForm =
                                             [typed EXCEPT !.activeTextInput = -1]],
                              c, sp, <<>>)
                 ELSE Handled([mm EXCEPT !.portForwardingForm = typed], c, sp, <<>>)
        ELSE CASE key = "s" ->
                    Handled(mm, c, sp,
                            <<Cmd(IF form.isNew THEN "AddPortForwardingRule"
                                  ELSE "UpdatePortForwardingRule",
                                  form.ruleIndex, ZeroFirewallRule,
                                  FormPortForwardingRule(form), NoPath,
                                  "portForwardingFormView", "")>>)
               [] key = "enter" ->
                    IF form.focused \in DOMAIN PortForwardingInputs
                    THEN Handled([mm EXCEPT !.portForwardingForm.activeTextInput =
                                                form.focused], c, sp, <<>>)
                    ELSE Handled([mm EXCEPT !.portForwardingForm.focused =
                                                (form.focused + 1) % 7], c, sp, <<>>)
               [] key = "up" ->
                    Handled([mm EXCEPT !.portForwardingForm.focused =
                                           (form.focused - 1 + 7) % 7], c, sp, <<>>)
               [] key = "down" ->
                    Handled([mm EXCEPT !.portForwardingForm.focused =
                                           (form.focused + 1) % 7], c, sp, <<>>)
               [] key \in {"left", "right"} /\ form.focused = 1 ->
                    Handled([mm EXCEPT !.portForwardingForm.protocol =
                                           IF @ = <<"tcp">> THEN <<"udp">> ELSE <<"tcp">>],
                            c, sp, <<>>)
               [] OTHER -> Handled(mm, c, sp, <<>>)

\* The informational view: q goes back to the main menu.
KeyInfo(mm, c, sp, key) ==
    IF key = "q"
    THEN Handled([mm EXCEPT !.currentView = "mainView"], c, sp, <<>>)
    ELSE Handled(mm, c, sp, <<>>)

\* The export view: the focused text input sees every key first; enter asks
\* before a file that exists is written over.
KeySaveConfig(mm, c, sp, fs, key) ==
    LET typed == [mm EXCEPT !.textinput = TextInputUpdate(@, key)]
        path == typed.textinput
    IN  IF key = "enter" /\ path # <<>>
        THEN IF Exists(fs, path)
             THEN Handled([typed EXCEPT !.previousView = "saveConfigView",
                                        !.currentView = "confirmationView",
                                        !.confirming = TRUE], c, sp, <<>>)
             ELSE Handled(typed, c, sp,
                          <<Cmd("SaveConfigAs", 0, ZeroFirewallRule, ZeroPortForwardingRule,
                                path, "saveConfigView", "")>>)
        ELSE Handled(typed, c, sp, <<>>)

\* The import view: enter imports the selected file.
KeyImportConfig(mm, c, sp, key) ==
    LET l == ListUpdate(mm.fileList, key)
        seen == ListQuit([mm EXCEPT !.fileList = l], key)
    IN  IF key = "enter" /\ HasSelectedItem(l)
        THEN Handled(seen, c, sp,
                     <<Cmd("ImportConfigFile", 0, ZeroFirewallRule, ZeroPortForwardingRule,
                           l.items[l.index + 1], "importConfigView", "")>>)
        ELSE Handled(seen, c, sp, <<>>)

\* The switch on the current view.
KeyView(mm, c, sp, fs, key, now) ==
    CASE mm.currentView = "mainView" -> KeyMain(mm, c, sp, key, now)
      [] mm.currentView = "ruleListView" -> KeyRuleList(mm, c, sp, fs, key)
      [] mm.currentView = "ruleFormView" -> KeyRuleForm(mm, c, sp, key)
      [] mm.currentView = "portForwardingListView" ->
           KeyPortForwardingList(mm, c, sp, fs, key)
      [] mm.currentView = "portForwardingFormView" -> KeyPortForwardingForm(mm, c, sp, key)
      [] mm.currentView = "infoView" -> KeyInfo(mm, c, sp, key)
      [] mm.currentView = "saveConfigView" -> KeySaveConfig(mm, c, sp, fs, key)
      [] mm.currentView = "importConfigView" -> KeyImportConfig(mm, c, sp, key)
      [] OTHER -> Handled(mm, c, sp, <<>>)

\* Update on a tea.KeyMsg: esc first, then the confirmation dialog, whose n
\* goes on into the switch on the view it has just restored, then that switch.
UpdateKey(mm, c, sp, fs, key, now) ==
    IF key = "esc" /\ mm.currentView # "confirmationView"
    THEN KeyEsc(mm, c, sp)
    ELSE IF mm.currentView = "confirmationView" /\ mm.confirming /\ key = "y"
    THEN LET answered == [mm EXCEPT !.confirming = FALSE]
         IN  CASE mm.previousView = "mainView" ->
                    Handled([answered EXCEPT !.exited = "quit"], c, sp, <<>>)
               [] mm.previousView = "ruleFormView" ->
                    Handled([answered EXCEPT !.currentView = "mainView"], c, sp, <<>>)
               [] mm.previousView = "saveConfigView" ->
                    Handled(answered, c, sp,
                            <<Cmd("SaveConfigAs", 0, ZeroFirewallRule,
                                  ZeroPortForwardingRule, mm.textinput,
                                  "confirmationView", "")>>)
               [] OTHER -> Handled(answered, c, sp, <<>>)
    ELSE IF mm.currentView = "confirmationView" /\ mm.confirming /\ key = "n"
    THEN KeyView([mm EXCEPT !.confirming = FALSE, !.currentView = mm.previousView],
                 c, sp, fs, key, now)
    ELSE KeyView(mm, c, sp, fs, key, now)

\* SaveConfigAs: the document as it is in memory, written at the path.
SaveConfigAs(c, sp, fs, path) == Result(c, sp, WriteFile(fs, path, MarshalConfig(c)), "")

\* What MkdirAll or WriteFile return on a path they cannot write.
ErrWrite == "failed to write file"

\* The operations of the Rule Store that commands call.
StoreOps ==
    {"AddFirewallRule", "UpdateFirewallRule", "DeleteFirewallRule",
     "AddPortForwardingRule", "UpdatePortForwardingRule", "DeletePortForwardingRule",
     "SaveConfig", "SaveConfigAs", "ImportConfigFile", "saveAndApplyRules"}

\* The call a command's closure makes on the manager. Update reads the form's
\* rule index when the closure runs; the rule was copied when it was made.
StoreCall(cmd, mm, c, sp, fs) ==
    CASE cmd.op = "AddFirewallRule" -> AddFirewallRule(c, sp, fs, cmd.rule)
      [] cmd.op = "UpdateFirewallRule" ->
           UpdateFirewallRule(c, sp, fs, mm.form.ruleIndex, cmd.rule)
      [] cmd.op = "DeleteFirewallRule" -> DeleteFirewallRule(c, sp, fs, cmd.index)
      [] cmd.op = "AddPortForwardingRule" -> AddPortForwardingRule(c, sp, fs, cmd.fwd)
      [] cmd.op = "UpdatePortForwardingRule" ->
           UpdatePortForwardingRule(c, sp, fs, mm.portForwardingForm.ruleIndex, cmd.fwd)
      [] cmd.op = "DeletePortForwardingRule" ->
           DeletePortForwardingRule(c, sp, fs, cmd.index)
      [] cmd.op = "SaveConfigAs" -> SaveConfigAs(c, sp, fs, cmd.path)
      [] cmd.op = "ImportConfigFile" -> ImportConfigFile(c, sp, fs, cmd.path)
      [] OTHER -> SaveConfig(c, sp, fs)

\* The message a command sends when its call returned nil.
Msg(type, value) == [type |-> type, value |-> value]

SuccessMsg(cmd) ==
    CASE cmd.op \in {"AddFirewallRule", "UpdateFirewallRule", "DeleteFirewallRule",
                     "DeletePortForwardingRule"} -> Msg("firewallRuleSavedMsg", cmd.op)
      [] cmd.op \in {"AddPortForwardingRule", "UpdatePortForwardingRule"} ->
           Msg("portForwardingRuleSavedMsg", cmd.op)
      [] cmd.op = "SaveConfigAs" -> Msg("configExportedMsg", cmd.op)
      [] cmd.op = "ImportConfigFile" -> Msg("configLoadedMsg", cmd.op)
      [] OTHER -> Msg("configSavedAndBackToMainMsg", cmd.op)

\* GetPfStatus and CheckPfStartupStatus.
Status(on) == IF on THEN "Enabled" ELSE "Disabled"

\* The names of the files the import view lists: the .json files of the
\* configuration directory other than rules.json.
Listed ==
    <<ExportPath(Clock[2]), ExportPath(Clock[1]), FullPath, OmitPath, PartialPath,
      MistypedPath, GarbagePath, MissingPath>>

fileListItems(fs) ==
    LET RECURSIVE From(_)
        From(i) == IF i > Len(Listed) THEN <<>>
                   ELSE IF Exists(fs, Listed[i]) THEN <<Listed[i]>> \o From(i + 1)
                   ELSE From(i + 1)
    IN  From(1)

\* What a shell command leaves: the state of PF and the message sent.
ShellCall(cmd, env) ==
    CASE cmd.op = "checkPfStatus" ->
           [pf |-> env, msg |-> Msg("pfStatusMsg", Status(env.enabled))]
      [] cmd.op = "checkPfStartupStatus" ->
           [pf |-> env, msg |-> Msg("pfStartupStatusMsg", Status(env.startup))]
      [] cmd.op = "enablePf" ->
           [pf |-> [env EXCEPT !.enabled = TRUE], msg |-> Msg("pfStatusMsg", "Enabled")]
      [] cmd.op = "disablePf" ->
           [pf |-> [env EXCEPT !.enabled = FALSE], msg |-> Msg("pfStatusMsg", "Disabled")]
      [] cmd.op = "enablePfOnStartup" ->
           [pf |-> [env EXCEPT !.startup = TRUE],
            msg |-> Msg("pfStartupStatusMsg", "Enabled")]
      [] cmd.op = "disablePfOnStartup" ->
           [pf |-> [env EXCEPT !.startup = FALSE],
            msg |-> Msg("pfStartupStatusMsg", "Disabled")]
      [] cmd.op = "getPfInfo" -> [pf |-> env, msg |-> Msg("pfInfoMsg", "pf info")]
      [] cmd.op = "getCurrentRules" ->
           [pf |-> env, msg |-> Msg("currentRulesMsg", "pf rules")]
      [] OTHER -> [pf |-> env, msg |-> Msg("infoRefreshMsg", cmd.op)]

\* Update on the message of a command.
UpdateMsg(mm, c, sp, msg) ==
    CASE msg.type = "pfStatusMsg" -> Handled([mm EXCEPT !.pfStatus = msg.value], c, sp, <<>>)
      [] msg.type = "pfStartupStatusMsg" ->
           Handled([mm EXCEPT !.startupStatus = msg.value], c, sp, <<>>)
      [] msg.type \in {"pfInfoMsg", "currentRulesMsg"} ->
           Handled([mm EXCEPT !.viewport = msg.value], c, sp, <<>>)
      [] msg.type = "infoRefreshMsg" ->
           IF mm.currentView = "infoView" /\ mm.pfStatus = "Enabled"
           THEN Handled(mm, c, sp, <<Plain("getPfInfo", "infoView"),
                                    Plain("tick", "infoView")>>)
           ELSE Handled(mm, c, sp, <<>>)
      [] msg.type = "firewallRuleSavedMsg" ->
           Handled(updateRuleList([mm EXCEPT !.statusMessage = msg.type,
                                             !.currentView = "ruleListView"], c),
                   c, sp, <<>>)
      [] msg.type = "portForwardingRuleSavedMsg" ->
           Handled(updatePortForwardingList(
                       [mm EXCEPT !.statusMessage = msg.type,
                                  !.currentView = "portForwardingListView"], c),
                   c, sp, <<>>)
      [] msg.type = "configLoadedMsg" ->
           Handled(updateRuleList([mm EXCEPT !.statusMessage = msg.type,
                                             !.currentView = "mainView"], c),
                   c, sp, <<Plain("updatePortForwardingList", "mainView")>>)
      [] msg.type \in {"configExportedMsg", "configSavedAndBackToMainMsg"} ->
           Handled([mm EXCEPT !.statusMessage = msg.type, !.currentView = "mainView"],
                   c, sp, <<>>)
      [] msg.type = "fileListMsg" ->
           Handled([mm EXCEPT !.fileList.items = msg.value], c, sp, <<>>)
      [] OTHER -> Handled([mm EXCEPT !.statusMessage = msg.type], c, sp, <<>>)

\* No store command returned in the step that led here.
NoRun == [op |-> ""]

\* The user is slow: a key is pressed when no more than MaxPending commands
\* and messages wait after it.
KeepsUp(running, waiting) == BagCardinality(running) + Len(waiting) <= MaxPending

\* The commands of a sequence as a bag: the runtime starts each in a goroutine
\* of its own and they run in no order.
BagOf(new) ==
    LET RECURSIVE From(_)
        From(i) == IF i > Len(new) THEN EmptyBag ELSE SetToBag({new[i]}) (+) From(i + 1)
    IN  From(1)

\* Where a run starts: the user has walked the main menu to an item,
\* rules.json holds `text`, PF is enabled or not, and Init's two commands have
\* delivered their messages or still run.
Starts ==
    [item : 0..(Len(MainItems) - 1), text : {FullText}, enabled : {TRUE},
     delivered : {TRUE}]
        \cup [item : {10, 12}, text : {NoFile}, enabled : BOOLEAN, delivered : BOOLEAN]

\* The file system a run starts on: an export made earlier lies at the first
\* export path.
StartFiles(text) ==
    WriteFile([InitialFiles EXCEPT ![DefaultConfigPath] = text],
              ExportPath(Clock[1]), OmitText)

\* The model of a start: what NewModel returns, the cursor on the item, and
\* the two statuses as delivered.
StartModel(st) ==
    [NewModel EXCEPT !.list = st.item,
                     !.pfStatus = IF st.delivered THEN Status(st.enabled) ELSE @,
                     !.startupStatus = IF st.delivered THEN "Disabled" ELSE @]

\* main: the manager loads the default file, the program starts with the
\* model NewModel returns and runs the two commands of Init.
UIInit ==
    /\ \E st \in Starts :
          /\ files = StartFiles(st.text)
          /\ m = StartModel(st)
          /\ pf = [enabled |-> st.enabled, startup |-> FALSE]
          /\ cmds = IF st.delivered THEN EmptyBag
                    ELSE BagOf(<<Plain("checkPfStatus", ""),
                                 Plain("checkPfStartupStatus", "")>>)
    /\ Config = LoadConfig(NewConfig, NoSpare, files).Config
    /\ spare = LoadConfig(NewConfig, NoSpare, files).spare
    /\ last = Call("LoadConfig", 0, 0, ZeroFirewallRule, ZeroPortForwardingRule, NoPath)
    /\ pre = [Config |-> NewConfig, files |-> files, op |-> "", err |-> ""]
    /\ calls = 0
    /\ NoRace
    /\ NoText
    /\ msgs = <<>>
    /\ keys = 0
    /\ ran = NoRun
    /\ NoShell

\* The user presses a key and Update handles it. A press that leaves
\* everything as it is, is no step.
Key ==
    /\ m.exited = ""
    /\ keys < MaxKeys
    /\ \E key \in Keys, i \in DOMAIN Clock :
          LET h == UpdateKey(m, Config, spare, files, key, Clock[i])
          IN  /\ h.m # m \/ h.Config # Config \/ h.cmds # <<>>
              /\ m' = h.m
              /\ Config' = h.Config
              /\ spare' = h.spare
              /\ cmds' = cmds (+) BagOf(h.cmds)
              /\ KeepsUp(cmds (+) BagOf(h.cmds), msgs)
    /\ keys' = keys + 1
    /\ ran' = NoRun
    /\ UNCHANGED <<files, last, pre, calls, pf, msgs, raceVars, compileVars, parseVars, shellVars>>

\* cmds without the command cmd, and with the one tea.Sequence runs next.
Finished(cmd) ==
    (cmds (-) SetToBag({cmd}))
        (+) (IF cmd.then = "" THEN EmptyBag ELSE SetToBag({Plain(cmd.then, cmd.view)}))

\* A command that calls the Rule Store returns and sends its message.
RunStore ==
    /\ m.exited = ""
    /\ \E cmd \in BagToSet(cmds), ok \in BOOLEAN :
          LET r == IF ok THEN StoreCall(cmd, m, Config, spare, files)
                   ELSE Result(Config, spare, files, ErrWrite)
          IN  /\ cmd.op \in StoreOps
              /\ ok \/ cmd.op = "SaveConfigAs"
              /\ Config' = r.Config
              /\ spare' = r.spare
              /\ files' = r.files
              /\ pfConf' = IF cmd.op = "saveAndApplyRules"
                           THEN <<GeneratePfConf(r.Config)>> ELSE pfConf
              /\ msgs' = Append(msgs, IF r.err = "" THEN SuccessMsg(cmd)
                                      ELSE Msg("errMsg", r.err))
              /\ cmds' = Finished(cmd)
              /\ ran' = [op |-> cmd.op, cmd |-> cmd, err |-> r.err, files |-> files]
    /\ UNCHANGED <<last, pre, calls, m, pf, keys, document, raceVars, parseVars, shellVars>>

\* A command that asks the shell layer, or a timer, sends its message. The
\* second of a timer is long: it fires when fewer than MaxPending commands and
\* messages wait.
RunShell ==
    /\ m.exited = ""
    /\ \E cmd \in BagToSet(cmds) :
          /\ cmd.op \notin StoreOps \cup {"updatePortForwardingList", "updateFileList"}
          /\ cmd.op = "tick" => BagCardinality(cmds) + Len(msgs) < MaxPending
          /\ pf' = ShellCall(cmd, pf).pf
          /\ msgs' = Append(msgs, ShellCall(cmd, pf).msg)
          /\ cmds' = Finished(cmd)
    /\ ran' = NoRun
    /\ UNCHANGED <<storeVars, m, keys, raceVars, compileVars, parseVars, shellVars>>

\* The closure that refreshes the port forwarding list runs in its goroutine
\* and sends nothing.
RunUpdatePortForwardingList ==
    /\ m.exited = ""
    /\ \E cmd \in BagToSet(cmds) :
          /\ cmd.op = "updatePortForwardingList"
          /\ m' = updatePortForwardingList(m, Config)
          /\ cmds' = Finished(cmd)
    /\ ran' = NoRun
    /\ UNCHANGED <<storeVars, pf, msgs, keys, raceVars, compileVars, parseVars, shellVars>>

\* updateFileList's command reads the configuration directory.
RunUpdateFileList ==
    /\ m.exited = ""
    /\ \E cmd \in BagToSet(cmds) :
          /\ cmd.op = "updateFileList"
          /\ msgs' = Append(msgs, Msg("fileListMsg", fileListItems(files)))
          /\ cmds' = Finished(cmd)
    /\ ran' = NoRun
    /\ UNCHANGED <<storeVars, m, pf, keys, raceVars, compileVars, parseVars, shellVars>>

\* Update handles the oldest message of the channel.
Receive ==
    /\ m.exited = ""
    /\ msgs # <<>>
    /\ m' = UpdateMsg(m, Config, spare, Head(msgs)).m
    /\ cmds' = cmds (+) BagOf(UpdateMsg(m, Config, spare, Head(msgs)).cmds)
    /\ msgs' = Tail(msgs)
    /\ ran' = NoRun
    /\ UNCHANGED <<storeVars, pf, keys, raceVars, compileVars, parseVars, shellVars>>

UINext ==
    \/ Key
    \/ RunStore
    \/ RunShell
    \/ RunUpdatePortForwardingList
    \/ RunUpdateFileList
    \/ Receive

SpecUI == UIInit /\ [][UINext]_vars

\* The program under its scheduling: a command's goroutine runs to its end and
\* the event loop handles the message that waits. Nothing makes the user press
\* a key.
SpecUIFair == SpecUI /\ WF_vars(RunShell) /\ WF_vars(Receive)

----------------------------------------------------------------------------
(* The shell layer: pf.go *)

\* The longest pf.conf, in pieces of text.
MaxPfConf == 30

pfConfPath == "/etc/pf.conf"

anchorFile == "/etc/pf.anchors/pf-tui"

plistPath == "/Library/LaunchDaemons/com.user.pftui.plist"

\* The three lines SetupPfConf wants in pf.conf. The second is a part of the
\* first and of the third.
rdrAnchorLine == <<"rdr-", "anchor \"pf-tui\"">>

anchorLine == <<"anchor \"pf-tui\"">>

loadAnchorLine == <<"load ", "anchor \"pf-tui\"", " from \"/etc/pf.anchors/pf-tui\"">>

\* strings.Contains(s, sub), sub a text.
ContainsText(s, sub) ==
    \E i \in 1 .. (Len(s) - Len(sub) + 1) : SubSeq(s, i, i + Len(sub) - 1) = sub

\* What an operation of the shell layer leaves: the commands it executed, in
\* order, what it returns, and the host.
Shelled(exec, out, err, h) == [exec |-> exec, out |-> out, err |-> err, host |-> h]

\* The mock texts of test mode.
MockRules == <<"pass out on lo0 all", "\n", "block in on lo0 all">>

MockInfo == <<"State Table      Total             0">>

\* What `pfctl -s info` prints.
PfctlInfo(h) ==
    <<"Status: ", (IF h.enabled THEN "Enabled" ELSE "Disabled"), " for 0 days", "\n",
      "State Table      Total">>

\* What `pfctl -s rules` prints: a line about ALTQ and the loaded rules.
PfctlRules(h) == <<"No ALTQ support in kernel", "\n">> \o h.loaded

\* Which command of an operation fails, counted as the source has them: 0 for
\* none.
Faults == {0, 1, 2}

\* RunSudoCmd(args...): nothing is executed in test mode. `out` is what the
\* command prints and `fails` whether it exits with an error.
RunSudoCmd(tm, args, out, fails) ==
    IF tm THEN [exec |-> <<>>, out |-> <<>>, err |-> FALSE]
    ELSE [exec |-> <<(<<"sudo">> \o args)>>, out |-> out, err |-> fails]

\* SetupPfConf: reads pf.conf through RunSudoCmd and appends the lines it does
\* not find with a command of its own.
SetupPfConf(tm, h, fault) ==
    LET cat == RunSudoCmd(tm, <<"cat", pfConfPath>>, h.pfConf, fault = 1)
        content == cat.out
        hasRdrAnchor == ContainsText(content, rdrAnchorLine)
        hasAnchor == ContainsText(content, anchorLine)
        hasLoadAnchor == ContainsText(content, loadAnchorLine)
        toAppend ==
            <<"\n", "# pf-tui anchor point", "\n">>
                \o (IF ~hasRdrAnchor THEN rdrAnchorLine \o <<"\n">> ELSE <<>>)
                \o (IF ~hasAnchor THEN anchorLine \o <<"\n">> ELSE <<>>)
                \o (IF ~hasLoadAnchor THEN loadAnchorLine \o <<"\n">> ELSE <<>>)
        tee == <<"sudo", "tee", "-a", pfConfPath>>
    IN  IF cat.err THEN Shelled(cat.exec, <<>>, "failed to read", h)
        ELSE IF hasRdrAnchor /\ hasAnchor /\ hasLoadAnchor
        THEN Shelled(cat.exec, <<>>, "", h)
        ELSE IF fault = 2 THEN Shelled(cat.exec \o <<tee>>, <<>>, "failed to append", h)
        ELSE Shelled(cat.exec \o <<tee>>, <<>>, "", [h EXCEPT !.pfConf = @ \o toAppend])

\* ApplyRules(rules): writes the anchor file and has pfctl load it.
ApplyRules(tm, h, rules, fault) ==
    LET tee == <<"sudo", "tee", anchorFile>>
        written == [h EXCEPT !.anchor = rules]
        load == RunSudoCmd(tm, <<"pfctl", "-f", anchorFile>>, <<>>, fault = 2)
    IN  IF tm THEN Shelled(<<>>, <<>>, "", h)
        ELSE IF fault = 1 THEN Shelled(<<tee>>, <<>>, "failed to write to anchor file", h)
        ELSE IF load.err THEN Shelled(<<tee>> \o load.exec, load.out, "exit status 1", written)
        ELSE Shelled(<<tee>> \o load.exec, load.out, "", [written EXCEPT !.loaded = rules])

\* GetCurrentRules: the loaded rules without the lines that speak of ALTQ.
GetCurrentRules(tm, h, fault) ==
    LET show == RunSudoCmd(tm, <<"pfctl", "-s", "rules">>, PfctlRules(h), fault = 1)
        lines == Split(show.out, "\n")
        kept == SelectSeq(lines, LAMBDA line :
                    \A i \in 1 .. Len(line) : line[i] # "No ALTQ support in kernel")
    IN  IF tm THEN Shelled(<<>>, MockRules, "", h)
        ELSE IF show.err THEN Shelled(show.exec, <<>>, "exit status 1", h)
        ELSE Shelled(show.exec, Join(kept, <<"\n">>), "", h)

\* GetPfStatus: "Enabled" when the Status line of `pfctl -s info` begins so;
\* a failure of pfctl counts as "Disabled" when it says pf is not running.
GetPfStatus(tm, h, fault) ==
    LET notRunning == <<"pfctl: ", "pf not running">>
        info == RunSudoCmd(tm, <<"pfctl", "-s", "info">>,
                           IF fault = 2 THEN notRunning ELSE PfctlInfo(h), fault # 0)
    IN  IF tm THEN Shelled(<<>>, <<"Enabled">>, "", h)
        ELSE IF info.err
        THEN IF ContainsText(info.out, <<"pf not running">>)
             THEN Shelled(info.exec, <<"Disabled">>, "", h)
             ELSE Shelled(info.exec, <<>>, "exit status 1", h)
        ELSE IF \E line \in {Split(info.out, "\n")[i] : i \in 1 .. Len(Split(info.out, "\n"))} :
                    Len(line) >= 2 /\ line[1] = "Status: " /\ line[2] = "Enabled"
        THEN Shelled(info.exec, <<"Enabled">>, "", h)
        ELSE Shelled(info.exec, <<"Disabled">>, "", h)

\* EnablePf and DisablePf.
EnablePf(tm, h, fault) ==
    LET on == RunSudoCmd(tm, <<"pfctl", "-e">>, <<>>, fault = 1)
    IN  IF tm THEN Shelled(<<>>, <<>>, "", h)
        ELSE IF on.err THEN Shelled(on.exec, on.out, "exit status 1", h)
        ELSE Shelled(on.exec, on.out, "", [h EXCEPT !.enabled = TRUE])

DisablePf(tm, h, fault) ==
    LET off == RunSudoCmd(tm, <<"pfctl", "-d">>, <<>>, fault = 1)
    IN  IF tm THEN Shelled(<<>>, <<>>, "", h)
        ELSE IF off.err THEN Shelled(off.exec, off.out, "exit status 1", h)
        ELSE Shelled(off.exec, off.out, "", [h EXCEPT !.enabled = FALSE])

\* GetPfInfo.
GetPfInfo(tm, h, fault) ==
    LET info == RunSudoCmd(tm, <<"pfctl", "-s", "info">>, PfctlInfo(h), fault = 1)
    IN  IF tm THEN Shelled(<<>>, MockInfo, "", h)
        ELSE Shelled(info.exec, info.out, IF info.err THEN "exit status 1" ELSE "", h)

\* EnablePfOnStartup: writes the launchd plist and loads the job.
EnablePfOnStartup(tm, h, fault) ==
    LET tee == <<"sudo", "tee", plistPath>>
        written == [h EXCEPT !.plist = TRUE]
        load == RunSudoCmd(tm, <<"launchctl", "load", "-w", plistPath>>, <<>>, fault = 2)
    IN  IF tm THEN Shelled(<<>>, <<>>, "", h)
        ELSE IF fault = 1 THEN Shelled(<<tee>>, <<>>, "failed to write plist file", h)
        ELSE Shelled(<<tee>> \o load.exec, load.out,
                     IF load.err THEN "exit status 1" ELSE "", written)

\* DisablePfOnStartup: unloads the job, whose failure it ignores, and removes
\* the plist; rm fails on a file that is not there.
DisablePfOnStartup(tm, h, fault) ==
    LET unload == RunSudoCmd(tm, <<"launchctl", "unload", "-w", plistPath>>, <<>>, fault = 1)
        rm == RunSudoCmd(tm, <<"rm", plistPath>>, <<>>, fault = 2 \/ ~h.plist)
    IN  IF tm THEN Shelled(<<>>, <<>>, "", h)
        ELSE IF rm.err THEN Shelled(unload.exec \o rm.exec, rm.out, "exit status 1", h)
        ELSE Shelled(unload.exec \o rm.exec, rm.out, "", [h EXCEPT !.plist = FALSE])

\* The operations of the shell layer.
ShellOps ==
    {"SetupPfConf", "ApplyRules", "GetCurrentRules", "GetPfStatus", "EnablePf", "DisablePf",
     "GetPfInfo", "EnablePfOnStartup", "DisablePfOnStartup", "RunSudoCmd"}

\* The rules handed to ApplyRules.
AppliedRules == {<<>>, <<"pass in all", "\n">>}

\* An operation called with the program in mode tm on host h.
Shell(op, tm, h, rules, fault) ==
    CASE op = "SetupPfConf" -> SetupPfConf(tm, h, fault)
      [] op = "ApplyRules" -> ApplyRules(tm, h, rules, fault)
      [] op = "GetCurrentRules" -> GetCurrentRules(tm, h, fault)
      [] op = "GetPfStatus" -> GetPfStatus(tm, h, fault)
      [] op = "EnablePf" -> EnablePf(tm, h, fault)
      [] op = "DisablePf" -> DisablePf(tm, h, fault)
      [] op = "GetPfInfo" -> GetPfInfo(tm, h, fault)
      [] op = "EnablePfOnStartup" -> EnablePfOnStartup(tm, h, fault)
      [] op = "DisablePfOnStartup" -> DisablePfOnStartup(tm, h, fault)
      [] OTHER ->
           LET cat == RunSudoCmd(tm, <<"cat", pfConfPath>>, h.pfConf, fault = 1)
           IN  Shelled(cat.exec, cat.out, IF cat.err THEN "exit status 1" ELSE "", h)

\* pf.conf as the program finds it: any of the three lines, in their order.
PfConfs ==
    {(IF a THEN rdrAnchorLine \o <<"\n">> ELSE <<>>)
        \o (IF b THEN anchorLine \o <<"\n">> ELSE <<>>)
        \o (IF c THEN loadAnchorLine \o <<"\n">> ELSE <<>>) : a, b, c \in BOOLEAN}

ShellInit ==
    /\ OneManager
    /\ NoUI
    /\ files = InitialFiles
    /\ NoRace
    /\ NoText
    /\ testMode \in BOOLEAN
    /\ host \in [pfConf : PfConfs, anchor : {<<>>}, loaded : {<<>>}, enabled : BOOLEAN,
                 plist : BOOLEAN]
    /\ executed = <<>>
    /\ reply = [op |-> ""]
    /\ applying = [at |-> ""]

\* One operation of the shell layer runs to its end; pf.conf stays within
\* MaxPfConf pieces.
CallShell ==
    \E op \in ShellOps, rules \in AppliedRules, fault \in Faults :
        LET r == Shell(op, testMode, host, rules, fault)
        IN  /\ Len(r.host.pfConf) <= MaxPfConf
            /\ host' = r.host
            /\ executed' = r.exec
            /\ reply' = [op |-> op, out |-> r.out, err |-> r.err]
            /\ UNCHANGED <<storeVars, raceVars, compileVars, parseVars, uiVars, testMode, applying>>

ShellNext == CallShell

SpecShell == ShellInit /\ [][ShellNext]_vars

----------------------------------------------------------------------------
(* Save & Apply: the command of saveAndApplyRules, run in its goroutine    *)
(* while the key handler of the rule list goes on in Update's              *)

\* The calls of the closure, in the order of the source.
ApplyOrder == <<"SetupPfConf", "SaveConfig", "GeneratePfConf", "ApplyRules">>

\* The closure about to make the call `at`, having made `made`.
Applying(at, made, written, msg, moved) ==
    [at |-> at, made |-> made, written |-> written, msg |-> msg, moved |-> moved]

\* The default file when the command starts.
ApplyTexts == {FullText, OmitText, NoFile}

\* The manager has loaded the default file and the user has pressed enter on
\* Save & Apply Configuration.
ApplyInit ==
    /\ \E text \in ApplyTexts : files = [InitialFiles EXCEPT ![DefaultConfigPath] = text]
    /\ Config = LoadConfig(NewConfig, NoSpare, files).Config
    /\ spare = LoadConfig(NewConfig, NoSpare, files).spare
    /\ last = Call("LoadConfig", 0, 0, ZeroFirewallRule, ZeroPortForwardingRule, NoPath)
    /\ pre = [Config |-> Config, files |-> files, op |-> "", err |-> ""]
    /\ calls = 0
    /\ NoRace
    /\ NoText
    /\ NoUI
    /\ testMode \in BOOLEAN
    /\ host \in [pfConf : PfConfs, anchor : {<<>>}, loaded : {<<>>}, enabled : {TRUE},
                 plist : {FALSE}]
    /\ executed = <<>>
    /\ reply = [op |-> ""]
    /\ applying = Applying("SetupPfConf", <<>>, NewConfig, "", FALSE)

\* if err := SetupPfConf(); err != nil { return errMsg{err} }
SetupStep ==
    /\ applying.at = "SetupPfConf"
    /\ \E fault \in Faults :
          LET r == SetupPfConf(testMode, host, fault)
          IN  /\ Len(r.host.pfConf) <= MaxPfConf
              /\ host' = r.host
              /\ executed' = executed \o r.exec
              /\ applying' = [applying EXCEPT
                                 !.at = IF r.err = "" THEN "SaveConfig" ELSE "returned",
                                 !.made = Append(@, "SetupPfConf"),
                                 !.msg = IF r.err = "" THEN "" ELSE "errMsg"]
    /\ UNCHANGED <<storeVars, raceVars, compileVars, parseVars, uiVars, testMode, reply>>

\* if err := fm.SaveConfig(); err != nil { return errMsg{err} }
SaveStep ==
    /\ applying.at = "SaveConfig"
    /\ \E ok \in BOOLEAN :
          LET r == IF ok THEN SaveConfig(Config, spare, files)
                   ELSE Result(Config, spare, files, ErrWrite)
          IN  /\ files' = r.files
              /\ applying' = [applying EXCEPT
                                 !.at = IF r.err = "" THEN "GeneratePfConf" ELSE "returned",
                                 !.made = Append(@, "SaveConfig"),
                                 !.written = IF r.err = "" THEN Config ELSE @,
                                 !.msg = IF r.err = "" THEN "" ELSE "errMsg"]
    /\ UNCHANGED <<Config, spare, last, pre, calls, raceVars, compileVars, parseVars, uiVars,
                   testMode, host, executed, reply>>

\* pfConf := fm.GeneratePfConf(); output, err := ApplyRules(pfConf)
ApplyStep ==
    /\ applying.at = "GeneratePfConf"
    /\ \E fault \in Faults :
          LET text == GeneratePfConf(Config)
              r == ApplyRules(testMode, host, text, fault)
          IN  /\ document' = Config
              /\ pfConf' = <<text>>
              /\ host' = r.host
              /\ executed' = executed \o r.exec
              /\ applying' = [applying EXCEPT
                                 !.at = "returned",
                                 !.made = @ \o <<"GeneratePfConf", "ApplyRules">>,
                                 !.msg = IF r.err = "" THEN "configSavedAndBackToMainMsg"
                                         ELSE "errMsg"]
    /\ UNCHANGED <<storeVars, raceVars, parseVars, uiVars, testMode, reply>>

\* The key handler of the rule list moves a rule on k or j while the command
\* runs: Update does not wait for the command.
MoveStep ==
    /\ applying.at \notin {"", "returned"}
    /\ \E from \in 0 .. (Len(Config.FirewallRules) - 1), by \in {-1, 1} :
          LET to == from + by
              r == MoveFirewallRule(Config, spare, files, from, to)
          IN  /\ r.Config # Config
              /\ Config' = r.Config
              /\ spare' = r.spare
    /\ applying' = [applying EXCEPT !.moved = @ \/ applying.at = "GeneratePfConf"]
    /\ UNCHANGED <<files, last, pre, calls, raceVars, compileVars, parseVars, uiVars, testMode,
                   host, executed, reply>>

ApplyNext ==
    \/ SetupStep
    \/ SaveStep
    \/ ApplyStep
    \/ MoveStep

SpecApply == ApplyInit /\ [][ApplyNext]_vars

----------------------------------------------------------------------------
(* Claims about the user interface *)

\* The firewall rules rules.json held before the store command that has just
\* returned, and those it holds now.
FilterRulesBefore == HeldFilterList(ran.files[DefaultConfigPath])

FilterRulesNow == HeldFilterList(files[DefaultConfigPath])

\* C22: in the firewall rule list, after any k and j presses, saved or not, d
\* removes from rules.json exactly the rule that was highlighted: when the
\* delete has succeeded the file holds the rules it held before without one
\* occurrence of the rule of the item that was selected when d was pressed.
C22_DeleteRemovesHighlightedRule ==
    (ran.op = "DeleteFirewallRule" /\ ran.err = "") =>
        \E k \in 1 .. Len(FilterRulesBefore) :
            /\ FilterRulesBefore[k] = ran.cmd.rule
            /\ FilterRulesNow = Without(FilterRulesBefore, k)

\* The step is the return of a command that deleted a rule from rules.json.
DeleteWritten ==
    /\ ran'.op \in {"DeleteFirewallRule", "DeletePortForwardingRule"}
    /\ files'[DefaultConfigPath] # files[DefaultConfigPath]

\* C23: deleting from either list requires confirmation: after d, rules.json
\* is not modified until the user has confirmed in a confirmation dialog, so
\* a delete that modifies the file is the command of that dialog's handler,
\* not of the list's.
C23_DeleteAsksFirst == [][DeleteWritten => ran'.cmd.view = "confirmationView"]_vars

\* C24: through any key sequence in the port forwarding form, no rule with
\* an empty external or internal port is written to rules.json: when a save
\* of the form has succeeded, every port forwarding rule of the file has both.
C24_NoEmptyPortWritten ==
    (ran.op \in {"AddPortForwardingRule", "UpdatePortForwardingRule"} /\ ran.err = "") =>
        \A i \in 1 .. Len(HeldForwardList(files[DefaultConfigPath])) :
            /\ HeldForwardList(files[DefaultConfigPath])[i].ExternalPort # <<>>
            /\ HeldForwardList(files[DefaultConfigPath])[i].InternalPort # <<>>

\* The views of the two forms.
FormViews == {"ruleFormView", "portForwardingFormView"}

\* C25: Esc in an Add/Edit form shows a confirmation dialog before the form
\* is left: a key press never changes the view from a form to the main menu
\* or to a list; a press that leaves a form leads to the confirmation view.
\* (A step that handles no message is a key press.)
C25_FormLeftThroughConfirmation ==
    [][(m.currentView \in FormViews /\ m'.currentView # m.currentView /\ msgs' = msgs)
          => m'.currentView = "confirmationView"]_vars

\* The step starts an export to a path that names a file.
OverwriteStarted ==
    \E cmd \in BagToSet(cmds') :
        /\ cmd.op = "SaveConfigAs"
        /\ CopiesIn(cmd, cmds') > CopiesIn(cmd, cmds)
        /\ Exists(files, cmd.path)

\* The step is the answer n to the question whether to overwrite.
OverwriteDeclined ==
    /\ m.currentView = "confirmationView"
    /\ m.confirming
    /\ m.previousView = "saveConfigView"
    /\ m'.currentView = "saveConfigView"

\* The step handles the message of an export that succeeded.
ExportHandled ==
    /\ msgs # <<>>
    /\ Head(msgs).type = "configExportedMsg"
    /\ msgs' = Tail(msgs)

\* C27: Export asks before it overwrites: SaveAs on a path that names a file
\* is issued only by y in the confirmation dialog; n issues no write and
\* shows the export view again with the entered path as it was; and after a
\* successful export the main menu is shown.
C27_ExportAsksBeforeOverwrite ==
    [][/\ OverwriteStarted => (m.currentView = "confirmationView" /\ m.confirming)
       /\ OverwriteDeclined => (cmds' = cmds /\ files' = files
                                   /\ m'.textinput = m.textinput)
       /\ ExportHandled => m'.currentView = "mainView"]_vars

\* The rule of the item the port forwarding list has selected.
SelectedForward(mm) == mm.portForwardingList.items[mm.portForwardingList.index + 1]

\* The step is a key press in the port forwarding list that changes the order
\* of the rules in memory: k or j on a selected rule.
ForwardsReordered ==
    /\ m.currentView = "portForwardingListView"
    /\ HasSelectedItem(m.portForwardingList)
    /\ m.portForwardingList.items = Config.PortForwardingRules
    /\ keys' = keys + 1
    /\ Config'.PortForwardingRules # Config.PortForwardingRules

\* C29: in the port forwarding list k (j) moves the selected rule one
\* position up (down) in memory and leaves that same rule selected: a key
\* press that changes the order exchanges the selected rule with a neighbour,
\* and the cursor is on that rule afterwards.
C29_MoveKeepsRuleSelected ==
    [][ForwardsReordered =>
          LET at == m.portForwardingList.index + 1
          IN  /\ HasSelectedItem(m'.portForwardingList)
              /\ SelectedForward(m') = SelectedForward(m)
              /\ \E to \in {at - 1, at + 1} :
                    /\ to \in 1 .. Len(Config.PortForwardingRules)
                    /\ Config'.PortForwardingRules =
                          [Config.PortForwardingRules EXCEPT
                              ![at] = Config.PortForwardingRules[to],
                              ![to] = Config.PortForwardingRules[at]]]_vars

\* The number of commands in progress whose closure calls an operation of the
\* manager: each runs in a goroutine of its own from the moment Update returns
\* it until its message is sent.
StoreCommandsInProgress ==
    LET calling == {cmd \in BagToSet(cmds) : cmd.op \in StoreOps}
        Sum[S \in SUBSET calling] ==
            IF S = {} THEN 0
            ELSE LET cmd == CHOOSE x \in S : TRUE
                 IN  CopiesIn(cmd, cmds) + Sum[S \ {cmd}]
    IN  Sum[calling]

\* C30: the user interface invokes one operation of the manager at a time and
\* awaits its result before the next: at no time are two commands that call
\* the manager in progress together.
C30_OneStoreOperationAtATime == StoreCommandsInProgress <= 1

\* The Show Info view is displayed and PF is enabled.
InfoShownEnabled ==
    m.currentView = "infoView" /\ m.infoViewTitle = "Live PF Info" /\ pf.enabled

\* A command that fetches PF info is in progress.
FetchInProgress == \E cmd \in BagToSet(cmds) : cmd.op = "getPfInfo"

\* The step issues a fetch of PF info.
FetchIssued ==
    \E cmd \in BagToSet(cmds') :
        cmd.op = "getPfInfo" /\ CopiesIn(cmd, cmds') > CopiesIn(cmd, cmds)

\* C26: while the Show Info view is displayed and PF is enabled a further
\* fetch of PF info is always eventually issued, for as long as the view stays
\* open; while PF is disabled the only fetch issued is the initial one, by the
\* key press that opens the view.
C26_InfoRefreshedWhileEnabled ==
    /\ InfoShownEnabled ~> (FetchInProgress \/ ~InfoShownEnabled)
    /\ [][(FetchIssued /\ ~pf.enabled) => keys' = keys + 1]_vars

\* C36: the confirmation dialog is never dead: whenever the program runs, the
\* confirmation view is shown and no command or message is on its way, the
\* confirming flag is true, so that y or n leaves the dialog.
C36_ConfirmationNeverDead ==
    (m.exited = "" /\ m.currentView = "confirmationView" /\ cmds = EmptyBag /\ msgs = <<>>)
        => m.confirming

\* Update handles the message of a successful delete of a port forwarding
\* rule while the port forwarding list is shown.
ForwardDeleteHandled ==
    /\ msgs # <<>>
    /\ Head(msgs).value = "DeletePortForwardingRule"
    /\ msgs' = Tail(msgs)
    /\ m.currentView = "portForwardingListView"

\* C37: after a port forwarding rule is deleted with d from the port
\* forwarding list, the current view is still the port forwarding list: the
\* delete's result message switches it to no other view.
C37_ForwardDeleteKeepsView ==
    [][ForwardDeleteHandled => m'.currentView = "portForwardingListView"]_vars

\* C38: the content of the informational view matches its title: whenever
\* the view is titled "Current Live PF Rules" and no longer shows
\* "Loading...", its content is the output of the rules query.
C38_ContentMatchesTitle ==
    (m.currentView = "infoView" /\ m.infoViewTitle = "Current Live PF Rules"
        /\ m.viewport # "Loading...") => m.viewport = "pf rules"

\* The refresh timers that are scheduled: the commands of tea.Tick that have
\* not fired.
ScheduledTicks ==
    LET ticks == {cmd \in BagToSet(cmds) : cmd.op = "tick"}
    IN  IF ticks = {} THEN 0 ELSE CopiesIn(CHOOSE cmd \in ticks : TRUE, cmds)

\* C39: at most one info-refresh timer is pending at any time.
C39_OneRefreshTimer == ScheduledTicks <= 1

----------------------------------------------------------------------------
(* Claims about the shell layer *)

\* C28: in test mode no operation of the shell layer executes a command, with
\* sudo or without, and each returns without an error.
C28_TestModeExecutesNothing ==
    (testMode /\ reply.op # "") => (executed = <<>> /\ reply.err = "")

----------------------------------------------------------------------------
(* C32, C33: the rule store again *)

\* C32: after a successful Load of an existing default file that parses, the
\* in-memory document is the one the file holds, whatever was in memory
\* before: the lists of the file's arrays, empty for an array the file lacks,
\* each rule with the zero value for a field its object lacks.
C32_LoadDeterminedByFile ==
    (Succeeded("LoadConfig") /\ Parseable(OldDefault)) => MemoryMatchesFile

\* C33: when Update or Delete returns the invalid-index error, neither the
\* default file nor the in-memory document has changed.
C33_InvalidIndexChangesNothing ==
    (last.op \in {"UpdateFirewallRule", "DeleteFirewallRule", "UpdatePortForwardingRule",
                  "DeletePortForwardingRule"} /\ last.err = ErrInvalidIndex)
        => (NewDefault = OldDefault /\ Config = pre.Config)

\* The file's half of C33.
C33_FileKept ==
    (last.op \in {"UpdateFirewallRule", "DeleteFirewallRule", "UpdatePortForwardingRule",
                  "DeletePortForwardingRule"} /\ last.err = ErrInvalidIndex)
        => files = pre.files

----------------------------------------------------------------------------
(* C34, C35: the compiled text again *)

\* C34: every statement line compiled for a filter rule whose port is not
\* `any` has a port clause, whatever the protocol field.
C34_PortNeverDropped ==
    (Compiled /\ OneFilter /\ TheFilter.Port # AnyText) =>
        \A k \in 1 .. Len(StatementLines(TheFilter.Description)) :
            HasToken(StatementLines(TheFilter.Description)[k], "port")

\* C34 for the protocols that have ports.
C34_ForTcpAndUdp ==
    (Compiled /\ OneFilter /\ TheFilter.Port # AnyText /\ TheFilter.Protocol # <<"icmp">>) =>
        \A k \in 1 .. Len(StatementLines(TheFilter.Description)) :
            HasToken(StatementLines(TheFilter.Description)[k], "port")

\* The line begins with the pieces of t.
BeginsWith(line, t) == Len(line) >= Len(t) /\ SubSeq(line, 1, Len(t)) = t

IsCommentLine(line) == BeginsWith(line, <<"#", " ">>)

\* The protocol tokens the claim counts for a filter rule: tcp and udp for
\* any with a port, else the tokens of the comma list.
ExpandedTokens(rule) ==
    IF rule.Protocol = AnyText /\ rule.Port # AnyText THEN 2
    ELSE 1 + Cardinality({i \in 1 .. Len(rule.Protocol) : rule.Protocol[i] = ","})

RECURSIVE SumExpanded(_)
SumExpanded(rules) ==
    IF rules = <<>> THEN 0 ELSE ExpandedTokens(rules[1]) + SumExpanded(Tail(rules))

\* Every line is a comment, a redirect or a filter statement of a rule of the
\* document, and the statements are as many as the rules make.
LinesAreCommentsOrStatements ==
    LET lines == Lines(pfConf[1])
    IN  /\ \A k \in 1 .. Len(lines) :
              \/ IsCommentLine(lines[k])
              \/ BeginsWith(lines[k], <<"rdr", " ">>)
              \/ \E i \in 1 .. Len(document.FirewallRules) :
                    BeginsWith(lines[k], document.FirewallRules[i].Action \o <<" ">>
                                           \o document.FirewallRules[i].Direction)
        /\ Cardinality({k \in 1 .. Len(lines) : ~IsCommentLine(lines[k])})
              = Len(document.PortForwardingRules) + SumExpanded(document.FirewallRules)

\* No description of the document has a line break.
OneLineDescriptions ==
    /\ \A i \in 1 .. Len(document.FirewallRules) :
          ~Contains(document.FirewallRules[i].Description, "\n")
    /\ \A i \in 1 .. Len(document.PortForwardingRules) :
          ~Contains(document.PortForwardingRules[i].Description, "\n")

\* C35: every line of the compiled text is a comment line beginning with
\* `# `, a redirect statement beginning with `rdr ` or a filter statement
\* beginning with the action and direction of a rule of the document, and
\* the statement lines are as many as the port forwarding rules plus the
\* expanded protocol tokens of the filter rules, whatever the descriptions.
C35_EveryLineCommentOrStatement == Compiled => LinesAreCommentsOrStatements

\* C35 for descriptions of one line.
C35_OneLineDescriptions == (Compiled /\ OneLineDescriptions) => LinesAreCommentsOrStatements

----------------------------------------------------------------------------
(* Claims about Save & Apply *)

\* The closure has called ApplyRules.
RulesApplied == Len(applying.made) = Len(ApplyOrder)

\* Setup, save, compile and apply are called in that order; the engine is
\* given the compilation of the document SaveConfig wrote, which the default
\* file holds; a closure that returned before ApplyRules returned an error and
\* has written no anchor file and loaded nothing.
SavedThenApplied ==
    /\ \A i \in 1 .. Len(applying.made) : applying.made[i] = ApplyOrder[i]
    /\ RulesApplied =>
          /\ files[DefaultConfigPath] = MarshalConfig(applying.written)
          /\ pfConf = <<GeneratePfConf(applying.written)>>
    /\ (applying.at = "returned" /\ ~RulesApplied) =>
          /\ applying.msg = "errMsg"
          /\ host.anchor = <<>> /\ host.loaded = <<>>
          /\ \A i \in 1 .. Len(executed) : executed[i] # <<"sudo", "tee", anchorFile>>

\* C31: Save & Apply runs setup, save, compile and apply in that order and
\* stops at the first failure; the text given to the engine is the compilation
\* of the in-memory document that was just written to the default file; a
\* setup or save failure applies nothing; an apply failure leaves the saved
\* file in place.
C31_SaveAndApplyInOrder == applying.at # "" => SavedThenApplied

\* The same as long as the key handler moved no rule between SaveConfig and
\* GeneratePfConf.
C31_WhenNotMoved == (applying.at # "" /\ ~applying.moved) => SavedThenApplied

\* The text has the line as a line of its own.
HasLine(text, line) == \E k \in 1 .. Len(Lines(text)) : Lines(text)[k] = line

\* SetupPfConf has just returned success.
SetupSucceeded == reply.op = "SetupPfConf" /\ reply.err = ""

\* C40: after SetupPfConf returns success pf.conf has the rdr-anchor line, the
\* plain anchor line and the load-anchor line as lines of their own, whatever
\* it held before; and a SetupPfConf call that follows a successful one
\* appends nothing.
C40_SetupLeavesThreeAnchors ==
    /\ [](SetupSucceeded =>
            /\ HasLine(host.pfConf, rdrAnchorLine)
            /\ HasLine(host.pfConf, anchorLine)
            /\ HasLine(host.pfConf, loadAnchorLine))
    /\ [][(SetupSucceeded /\ reply'.op = "SetupPfConf") => host'.pfConf = host.pfConf]_vars

====
